---- MODULE Spec2Model ----
(***************************************************************************)
(* Model of the DungeonGenFHE contract (src/frontend/web/src/App.tsx,      *)
(* lines 793-1045): roles, cooldowns, batch lifecycle, homomorphic         *)
(* accumulation, decryption requests and the decryption callback.          *)
(*                                                                         *)
(* Every external call is one atomic action.  A call that reverts leaves   *)
(* the contract state unchanged, so it is a stuttering step; its error     *)
(* kind is the value of the operation's ...Error operator in the state the *)
(* call is made in, and the events of a successful call are the value of   *)
(* its ...Events operator.                                                 *)
(***************************************************************************)
EXTENDS Integers, Sequences, FiniteSets, TLC

----------------------------------------------------------------------------
(* Bounds of the model *)

\* largest batch id openBatch may advance currentBatchId to
MaxBatchId == 2
\* largest number of contributions folded into one accumulator
MaxDepth == 2
\* number of request ids the decryption oracle hands out
MaxRequests == 2
\* number of clock advances of DefaultCooldown seconds the clock may make
MaxTicks == 1
\* calls that take effect on the batches, the requests and the clock in a
\* run that also changes the roles, the pause and the cooldown
MaxWork == 3
\* dungeons createDungeon stores in a run
MaxDungeons == 2
\* calls under way and timers armed in one session
MaxPending == 1
\* seconds that pass on the web client's clock
MaxSeconds == 4

----------------------------------------------------------------------------
(* Program constants and the small input sets *)

\* cooldownSeconds = 30 in the constructor
DefaultCooldown == 30
\* currentBatchId = 1 at deployment
FirstBatchId == 1
\* block.timestamp at deployment (any value >= DefaultCooldown behaves alike)
StartTime == 100

\* externally owned accounts; 1 is the deployer
Addrs == {1, 2}
Deployer == 1
\* address(this), the salt of _hashCiphertexts
ThisAddress == 99

\* a cooldown shorter than the default one
ShortCooldown == 2
\* type(uint256).max, in two's complement
MaxUint256 == -1
\* cooldowns up to the largest the parameter of setCooldownSeconds admits
WideCooldowns == {DefaultCooldown, MaxUint256}
\* values the owner passes to setCooldownSeconds
CooldownChoices == {0, DefaultCooldown}
\* clock advances between calls
TickSteps == {DefaultCooldown}

\* cooldowns and clock advances where the cooldown is followed second by second
FineCooldowns == {0, ShortCooldown, DefaultCooldown}
FineSteps == {1}

BatchIds == 0..MaxBatchId
\* ids 0..MaxRequests-1 are issued by the oracle; MaxRequests is never issued
RequestIds == 0..MaxRequests

----------------------------------------------------------------------------
(* Ciphertext handles.  A handle is an opaque identifier; the FHE          *)
(* operations are deterministic functions of their input handles that      *)
(* never return one of their inputs.  A handle is written as the prefix    *)
(* form of the term that produced it, a sequence of integers.              *)

\* the uint256 0 stored by openBatch (an uninitialised handle)
ZeroHandle == <<0>>
OpAdd == -1
OpMul == -2

FHEadd(a, b) == <<OpAdd>> \o a \o b
FHEmul(a, b) == <<OpMul>> \o a \o b

\* ciphertext triples (strength, agility, intellect) providers submit
Contributions == { << <<5>>, <<3>>, <<4>> >>, << <<4>>, <<5>>, <<2>> >> }
\* with a triple whose sums and products leave 32 bits
WideContributions ==
    Contributions \cup { << <<2147483647>>, <<65536>>, <<2147418113>> >> }
\* the triple submitted where the roles, not the sums, are under study
RoleContributions == { << <<5>>, <<3>>, <<4>> >> }

\* cleartext quadruples the oracle may deliver
Cleartexts == { <<9, 8, 6, 78>> }

\* number of contributions folded into an accumulator handle
Depth(h) == (Len(h) - 1) \div 2

----------------------------------------------------------------------------
(* Records *)

ZeroBatch == [id |-> 0, open |-> FALSE,
              totalEncryptedPartyStrength |-> ZeroHandle,
              totalEncryptedPartyAgility |-> ZeroHandle,
              totalEncryptedPartyIntellect |-> ZeroHandle,
              dungeonSeed |-> ZeroHandle]

\* the four handles of a batch, in the order of the cts array
BatchCts(b) == << b.totalEncryptedPartyStrength, b.totalEncryptedPartyAgility,
                  b.totalEncryptedPartyIntellect, b.dungeonSeed >>

\* keccak256(abi.encode(cts, address(this))), collision-free
HashCiphertexts(cts) == [cts |-> cts, salt |-> ThisAddress]
\* bytes32(0), the stateHash of a context that was never stored
ZeroHash == [cts |-> <<>>, salt |-> 0]

ZeroContext == [batchId |-> 0, stateHash |-> ZeroHash, processed |-> FALSE]

Event(name, args) == [name |-> name, args |-> args]

----------------------------------------------------------------------------
(* The plaintext under a handle.  An euint32 holds a value modulo 2^32,    *)
(* written here as two 16-bit halves; FHE.add and FHE.mul are the wrapping *)
(* sum and product of the plaintexts of their operands.                    *)

\* 2^16
Half == 65536

\* the euint32 value of a natural number below 2^31
ToWord(n) == [hi |-> n \div Half, lo |-> n % Half]
ZeroWord == ToWord(0)

\* sum modulo 2^32
AddW(a, b) ==
    LET lo == a.lo + b.lo IN
    [hi |-> (a.hi + b.hi + lo \div Half) % Half, lo |-> lo % Half]

\* x * y modulo 2^16, for x and y below 2^16
MulLow(x, y) == ((x % 256) * y + (((x \div 256) * y) % 256) * 256) % Half

\* the 32-bit product of two 16-bit halves
MulHalves(x, y) ==
    LET x0 == x % 256
        x1 == x \div 256
        y0 == y % 256
        y1 == y \div 256
        mid == x1 * y0 + x0 * y1
        low == x0 * y0 + (mid % 256) * 256
    IN  [hi |-> (x1 * y1 + mid \div 256 + low \div Half) % Half,
         lo |-> low % Half]

\* product modulo 2^32
MulW(a, b) ==
    LET p == MulHalves(a.lo, b.lo) IN
    [hi |-> (p.hi + MulLow(a.hi, b.lo) + MulLow(a.lo, b.hi)) % Half,
     lo |-> p.lo]

RECURSIVE Eval(_, _)
\* value and end of the term that starts at position i of handle h; an
\* input handle <<n>> is the ciphertext of n, the handle 0 counts as zero
Eval(h, i) ==
    IF h[i] >= 0 THEN [val |-> ToWord(h[i]), next |-> i + 1]
    ELSE LET l == Eval(h, i + 1)
             r == Eval(h, l.next)
         IN  [val |-> IF h[i] = OpAdd THEN AddW(l.val, r.val)
                      ELSE MulW(l.val, r.val),
              next |-> r.next]

Plain(h) == Eval(h, 1).val

----------------------------------------------------------------------------
(* The web client, App.tsx lines 1-792.  Strings are sequences of          *)
(* character codes.                                                        *)

\* what parseFloat gives a text that starts with no number; every number of
\* the client is 0 or more, so -1 stands for it
NaN == -1
Digit == 48 .. 57
\* the text "FHE-"
FhePrefix == <<70, 72, 69, 45>>

\* the decimal digits of a whole number from 0 to 10^21 - 1
RECURSIVE Digits(_)
Digits(n) ==
    IF n < 10 THEN <<48 + n>> ELSE Digits(n \div 10) \o <<48 + (n % 10)>>

\* Number.prototype.toString: the text "NaN", or the digits
NumberToString(n) == IF n = NaN THEN <<78, 97, 78>> ELSE Digits(n)

\* the value of the digits s[i], s[i+1], ... up to the first other character
RECURSIVE LeadingNumber(_, _, _)
LeadingNumber(s, i, acc) ==
    IF i > Len(s) \/ s[i] \notin Digit THEN acc
    ELSE LeadingNumber(s, i + 1, acc * 10 + (s[i] - 48))

\* parseFloat of a text without sign, point, exponent or leading blanks
ParseFloat(s) ==
    IF s = <<>> \/ s[1] \notin Digit THEN NaN ELSE LeadingNumber(s, 1, 0)

\* the base64 alphabet: A-Z a-z 0-9 + /
B64Char(i) ==
    IF i < 26 THEN 65 + i
    ELSE IF i < 52 THEN 97 + (i - 26)
    ELSE IF i < 62 THEN 48 + (i - 52)
    ELSE IF i = 62 THEN 43 ELSE 47

B64Index(c) == CHOOSE i \in 0 .. 63 : B64Char(i) = c

\* the padding character =
B64Pad == 61

\* btoa: three bytes become four characters, the last group padded
RECURSIVE Btoa(_)
Btoa(b) ==
    IF Len(b) = 0 THEN <<>>
    ELSE IF Len(b) = 1
    THEN <<B64Char(b[1] \div 4), B64Char((b[1] % 4) * 16), B64Pad, B64Pad>>
    ELSE IF Len(b) = 2
    THEN <<B64Char(b[1] \div 4), B64Char((b[1] % 4) * 16 + b[2] \div 16),
           B64Char((b[2] % 16) * 4), B64Pad>>
    ELSE <<B64Char(b[1] \div 4), B64Char((b[1] % 4) * 16 + b[2] \div 16),
           B64Char((b[2] % 16) * 4 + b[3] \div 64), B64Char(b[3] % 64)>>
         \o Btoa(SubSeq(b, 4, Len(b)))

\* atob of a padded base64 text
RECURSIVE Atob(_)
Atob(t) ==
    IF Len(t) < 4 THEN <<>>
    ELSE LET a == B64Index(t[1])
             b == B64Index(t[2])
             first == a * 4 + b \div 16
         IN  IF t[3] = B64Pad THEN <<first>>
             ELSE LET c == B64Index(t[3])
                      second == (b % 16) * 16 + c \div 4
                  IN  IF t[4] = B64Pad THEN <<first, second>>
                      ELSE <<first, second, (c % 4) * 64 + B64Index(t[4])>>
                           \o Atob(SubSeq(t, 5, Len(t)))

StartsWith(s, p) == Len(s) >= Len(p) /\ SubSeq(s, 1, Len(p)) = p

FHEEncryptNumber(value) == FhePrefix \o Btoa(NumberToString(value))

FHEDecryptNumber(encryptedData) ==
    IF StartsWith(encryptedData, FhePrefix)
    THEN ParseFloat(Atob(SubSeq(encryptedData, 5, Len(encryptedData))))
    ELSE ParseFloat(encryptedData)

\* combinedAttributes of createDungeon; arithmetic on NaN stays NaN
CombinedAttributes(d) ==
    IF NaN \in {d.strength, d.agility, d.intelligence} THEN NaN
    ELSE d.strength * 10000 + d.agility * 100 + d.intelligence

\* the fields decryptWithSignature returns; arithmetic on NaN stays NaN
SplitAttributes(combinedValue) ==
    IF combinedValue = NaN
    THEN [strength |-> NaN, agility |-> NaN, intelligence |-> NaN]
    ELSE [strength |-> combinedValue \div 10000,
          agility |-> (combinedValue % 10000) \div 100,
          intelligence |-> combinedValue % 100]

\* rng of generateDungeon: floor((seed % 1000) / 1000 * (max - min + 1)) + min
Rng(seed, max, min) == ((seed % 1000) * (max - min + 1)) \div 1000 + min

RoomTypes == <<"Empty", "Monster", "Treasure", "Boss", "Trap">>

\* row.join(' | ') of a row of size rooms of one type
RECURSIVE JoinedRow(_, _)
JoinedRow(size, room) ==
    IF size <= 0 THEN ""
    ELSE IF size = 1 THEN room
    ELSE room \o " | " \o JoinedRow(size - 1, room)

\* a layout of size rows, each of size rooms; a seed of NaN gives NaN counts
\* and no rows
generateDungeon(encryptedData) ==
    LET seed == FHEDecryptNumber(encryptedData)
    IN  IF seed = NaN
        THEN [layout |-> <<>>, monsters |-> NaN, treasures |-> NaN]
        ELSE LET size == Rng(seed, 5, 3)
                 row == JoinedRow(size,
                            RoomTypes[Rng(seed, Len(RoomTypes) - 1, 0) + 1])
             IN  [layout |-> [i \in 1 .. size |-> row],
                  monsters |-> Rng(seed, 10, 3),
                  treasures |-> Rng(seed, 7, 1)]

\* what JSON.parse gives for the null JSON.stringify wrote for a NaN
Null == -2

\* a number after JSON.stringify and JSON.parse
JsonNumber(n) == IF n = NaN THEN Null ELSE n

\* browser sessions that share the store, each with its wallet's address
Sessions == {1, 2}
\* the session that runs alone
Solo == {1}
\* useAccount's address of a session
Wallet(s) == s

\* the dungeon a writer other than the client stored and marked ready
Seeded == 0
\* ids createDungeon draws: Date.now() and four random digits, taken to
\* differ from every id drawn before
DungeonIds == 0 .. MaxDungeons

\* useState of newDungeonData
EmptyForm == [dungeonName |-> "", strength |-> 0, agility |-> 0,
              intelligence |-> 0]

\* a form with every attribute inside the range the inputs show, 1 to 99
PlainForm == [dungeonName |-> "crypt", strength |-> 5, agility |-> 3,
              intelligence |-> 4]

\* texts typed into the name input
TypedNames == {"crypt"}
\* what is typed into the number inputs: "5" as the strength, "100" as the
\* agility, "4" as the intelligence, and the intelligence deleted again
TypedNumbers == { <<"strength", <<53>> >>,
                  <<"agility", <<49, 48, 48>> >>,
                  <<"intelligence", <<52>> >>,
                  <<"intelligence", <<>> >> }

\* x <= 0 of JavaScript: false on NaN
NotAbove0(x) == x # NaN /\ x <= 0

\* ModalCreate.handleSubmit lets the form through
FormAccepted(form) ==
    ~(form.dungeonName = "" \/ NotAbove0(form.strength)
      \/ NotAbove0(form.agility) \/ NotAbove0(form.intelligence))

\* dungeonData of createDungeon
NewDungeonData(form, wallet, time) ==
    [attributes |-> FHEEncryptNumber(CombinedAttributes(form)),
     timestamp |-> time,
     owner |-> wallet,
     dungeonName |-> form.dungeonName,
     status |-> "generating",
     monstersDefeated |-> 0,
     treasuresFound |-> 0]

\* updatedDungeon of exploreDungeon
UpdatedDungeon(dungeonData) ==
    LET dungeon == generateDungeon(dungeonData.attributes)
    IN  [dungeonData EXCEPT !.status = "completed",
                            !.monstersDefeated = dungeon.monsters,
                            !.treasuresFound = dungeon.treasures]

\* JSON.stringify of a record and JSON.parse of the text
Stored(dungeonData) ==
    [dungeonData EXCEPT !.monstersDefeated = JsonNumber(@),
                        !.treasuresFound = JsonNumber(@)]

\* count || 0
CountOr0(count) == IF count \in {NaN, Null} THEN 0 ELSE count

\* the DungeonRecord loadDungeons builds from a stored record
Listed(key, dungeonData) ==
    [id |-> key,
     encryptedAttributes |-> dungeonData.attributes,
     timestamp |-> dungeonData.timestamp,
     owner |-> dungeonData.owner,
     dungeonName |-> dungeonData.dungeonName,
     status |-> IF dungeonData.status = "" THEN "generating"
                ELSE dungeonData.status,
     monstersDefeated |-> CountOr0(dungeonData.monstersDefeated),
     treasuresFound |-> CountOr0(dungeonData.treasuresFound)]

\* list with entry put before the first entry of a smaller timestamp
RECURSIVE Inserted(_, _)
Inserted(list, entry) ==
    IF list = <<>> THEN <<entry>>
    ELSE IF list[1].timestamp < entry.timestamp THEN <<entry>> \o list
    ELSE <<list[1]>> \o Inserted(Tail(list), entry)

\* list.sort((a, b) => b.timestamp - a.timestamp), a stable sort
RECURSIVE Sorted(_)
Sorted(list) ==
    IF list = <<>> THEN <<>>
    ELSE Inserted(Sorted(SubSeq(list, 1, Len(list) - 1)), list[Len(list)])

\* the store with no records in it
EmptyRecords == [i \in {} |-> 0]

SeededRecord ==
    [attributes |-> FHEEncryptNumber(50304),
     timestamp |-> StartTime,
     owner |-> 1,
     dungeonName |-> "vault",
     status |-> "ready",
     monstersDefeated |-> 0,
     treasuresFound |-> 0]

\* a record not read yet
NoData ==
    [attributes |-> <<>>, timestamp |-> 0, owner |-> 0, dungeonName |-> "",
     status |-> "", monstersDefeated |-> 0, treasuresFound |-> 0]

\* an asynchronous call under way: the function, the await it stands at and
\* its locals
Call(op, at) ==
    [op |-> op, pc |-> at, id |-> 0, form |-> EmptyForm, keys |-> <<>>,
     k |-> 0, list |-> <<>>, data |-> NoData, due |-> 0]

RemoveAt(q, i) == SubSeq(q, 1, i - 1) \o SubSeq(q, i + 1, Len(q))

\* no timer armed
NoTimers == [hide |-> <<>>, created |-> <<>>]

\* the delays of the timers, in whole seconds of the clock: 2000 ms after a
\* success, 3000 ms after an error; the 1500 ms decryptWithSignature waits
\* are over one second later at the earliest
SuccessDelay == 2
ErrorDelay == 3
SignatureDelay == 1

\* useState of transactionStatus
Hidden == [visible |-> FALSE, status |-> "pending", message |-> ""]
Shown(status, message) ==
    [visible |-> TRUE, status |-> status, message |-> message]

CreatedMessage == "Dungeon generation started with FHE!"
RejectedMessage == "user rejected transaction"
NoSignerMessage == "Failed to get contract with signer"

\* how getContractWithSigner and the setData after it end
TxOutcomes == {"applied", "no signer", "rejected"}
\* how a setData ends once there is a contract with a signer
WriteOutcomes == {"applied", "rejected"}

----------------------------------------------------------------------------
VARIABLES
    owner,                      \* address public owner
    providers,                  \* mapping(address => bool) providers, as a set
    paused,                     \* bool public paused
    cooldownSeconds,            \* uint256 public cooldownSeconds
    lastSubmissionTime,         \* mapping(address => uint256)
    lastDecryptionRequestTime,  \* mapping(address => uint256)
    decryptionContexts,         \* mapping(uint256 => DecryptionContext)
    batches,                    \* mapping(uint256 => Batch)
    currentBatchId,             \* uint256 public currentBatchId
    now,                        \* block.timestamp
    nextRequestId,              \* the oracle's request counter
    requests,                   \* cts the oracle received with each request
    trail,                      \* per request id: what happened to it so far
    isConnected,                \* per session: useAccount's isConnected
    newDungeonData,             \* per session: the form of ModalCreate
    selectedDungeon,            \* per session: <<>> or the record shown
    decryptedAttributes,        \* per session: <<>> or the decoded fields
    dungeons,                   \* per session: the list loadDungeons set
    dungeonLayout,              \* per session: the layout last generated
    transactionStatus,          \* per session: the status banner
    dungeonKeys,                \* the store's value under dungeon_keys
    records,                    \* the store's values under dungeon_<id>
    showCreateModal,            \* per session: ModalCreate is open
    creating,                   \* per session: createDungeon is under way
    isRefreshing,               \* per session: loadDungeons is under way
    loading,                    \* per session: no load has returned yet
    isDecrypting,               \* per session: decryptWithSignature waits
    timers,                     \* per session: the timers armed, by kind
    calls,                      \* per session: the calls under way
    nextDungeon,                \* the next id createDungeon draws
    made,                       \* per created id: the form it came from
    finished                    \* ids whose createDungeon wrote the list

admin == <<owner, providers, paused, cooldownSeconds>>
cooldowns == <<lastSubmissionTime, lastDecryptionRequestTime>>
ledger == <<batches, currentBatchId>>
oracle == <<decryptionContexts, nextRequestId, requests>>
clock == <<now>>
vars == <<owner, providers, paused, cooldownSeconds, lastSubmissionTime,
          lastDecryptionRequestTime, decryptionContexts, batches,
          currentBatchId, now, nextRequestId, requests, trail,
          isConnected, newDungeonData, selectedDungeon, decryptedAttributes,
          dungeons, dungeonLayout, transactionStatus, dungeonKeys, records,
          showCreateModal, creating, isRefreshing, loading, isDecrypting,
          timers, calls, nextDungeon, made, finished>>
\* the web client's state and the store it writes
front == <<isConnected, newDungeonData, selectedDungeon, decryptedAttributes,
           dungeons, dungeonLayout, transactionStatus, dungeonKeys, records,
           showCreateModal, creating, isRefreshing, loading, isDecrypting,
           timers, calls, nextDungeon, made, finished>>

\* stale: a contribution landed on the request's batch while it was pending;
\* finals: how many deliveries finalized it
NoTrail == [stale |-> FALSE, finals |-> 0]

InitChain ==
    /\ owner = Deployer
    /\ providers = {Deployer}
    /\ paused = FALSE
    /\ cooldownSeconds = DefaultCooldown
    /\ lastSubmissionTime = [a \in Addrs |-> 0]
    /\ lastDecryptionRequestTime = [a \in Addrs |-> 0]
    /\ decryptionContexts = [r \in RequestIds |-> ZeroContext]
    /\ batches = [b \in BatchIds |-> ZeroBatch]
    /\ currentBatchId = FirstBatchId
    /\ now = StartTime
    /\ nextRequestId = 0
    /\ requests = [r \in RequestIds |-> <<>>]
    /\ trail = [r \in RequestIds |-> NoTrail]

\* every session as App mounts it, its effect having called loadDungeons
InitSessions ==
    /\ isConnected = [s \in Sessions |-> FALSE]
    /\ showCreateModal = [s \in Sessions |-> FALSE]
    /\ newDungeonData = [s \in Sessions |-> EmptyForm]
    /\ creating = [s \in Sessions |-> FALSE]
    /\ isRefreshing = [s \in Sessions |-> TRUE]
    /\ loading = [s \in Sessions |-> TRUE]
    /\ isDecrypting = [s \in Sessions |-> FALSE]
    /\ selectedDungeon = [s \in Sessions |-> <<>>]
    /\ decryptedAttributes = [s \in Sessions |-> <<>>]
    /\ dungeons = [s \in Sessions |-> <<>>]
    /\ dungeonLayout = [s \in Sessions |-> <<>>]
    /\ transactionStatus = [s \in Sessions |-> Hidden]
    /\ timers = [s \in Sessions |-> NoTimers]
    /\ calls = [s \in Sessions |-> <<Call("mount", "load_keys")>>]
    /\ nextDungeon = 1
    /\ made = EmptyRecords
    /\ finished = {}

Init ==
    /\ InitChain
    /\ InitSessions
    /\ dungeonKeys = <<>>
    /\ records = EmptyRecords

----------------------------------------------------------------------------
(* AccessControl: lines 851-904 *)

\* an owner test against the deployer, whoever owns the contract now
OnlyOwnerError_Deployer(c) == IF c # Deployer THEN "NotOwner" ELSE "ok"

\* modifier onlyOwner
OnlyOwnerError(c) == IF c # owner THEN "NotOwner" ELSE "ok"
\* a provider test that lets the owner through
OnlyProviderError_OwnerBypass(c) ==
    IF c \notin providers /\ c # owner THEN "NotProvider" ELSE "ok"

\* modifier onlyProvider
OnlyProviderError(c) == IF c \notin providers THEN "NotProvider" ELSE "ok"
\* modifier whenNotPaused
WhenNotPausedError == IF paused THEN "Paused" ELSE "ok"

TransferOwnershipEvents(newOwner) ==
    << Event("OwnershipTransferred", <<owner, newOwner>>) >>

transferOwnership(c, newOwner) ==
    /\ owner' = IF OnlyOwnerError(c) = "ok" THEN newOwner ELSE owner
    /\ UNCHANGED <<providers, paused, cooldownSeconds, cooldowns, ledger,
                   oracle, clock, trail,
                   front>>

AddProviderEvents(provider) == << Event("ProviderAdded", <<provider>>) >>

addProvider(c, provider) ==
    /\ providers' = IF OnlyOwnerError(c) = "ok"
                    THEN providers \cup {provider} ELSE providers
    /\ UNCHANGED <<owner, paused, cooldownSeconds, cooldowns, ledger,
                   oracle, clock, trail,
                   front>>

RemoveProviderEvents(provider) == << Event("ProviderRemoved", <<provider>>) >>

removeProvider(c, provider) ==
    /\ providers' = IF OnlyOwnerError(c) = "ok"
                    THEN providers \ {provider} ELSE providers
    /\ UNCHANGED <<owner, paused, cooldownSeconds, cooldowns, ledger,
                   oracle, clock, trail,
                   front>>

SetPausedEvents(p) ==
    IF paused # p
    THEN << Event(IF p THEN "ContractPaused" ELSE "ContractUnpaused", <<>>) >>
    ELSE <<>>

setPaused(c, p) ==
    /\ paused' = IF OnlyOwnerError(c) = "ok" /\ paused # p THEN p ELSE paused
    /\ UNCHANGED <<owner, providers, cooldownSeconds, cooldowns, ledger,
                   oracle, clock, trail,
                   front>>

SetCooldownSecondsEvents(secs) ==
    << Event("CooldownSecondsChanged", <<cooldownSeconds, secs>>) >>

setCooldownSeconds(c, secs) ==
    /\ cooldownSeconds' = IF OnlyOwnerError(c) = "ok"
                          THEN secs ELSE cooldownSeconds
    /\ UNCHANGED <<owner, providers, paused, cooldowns, ledger,
                   oracle, clock, trail,
                   front>>

----------------------------------------------------------------------------
(* BatchLedger: lines 906-931 *)

\* onlyOwner whenNotPaused
OpenBatchError(c) ==
    IF OnlyOwnerError(c) # "ok" THEN OnlyOwnerError(c) ELSE WhenNotPausedError

\* openBatch that never advances currentBatchId
OpenBatchTarget_NoAdvance == currentBatchId

\* the id openBatch writes the new batch under:
\* if (batches[currentBatchId].open) currentBatchId++
OpenBatchTarget ==
    IF batches[currentBatchId].open THEN currentBatchId + 1 ELSE currentBatchId

\* the Batch literal of lines 910-917
NewBatch(id) == [ZeroBatch EXCEPT !.id = id, !.open = TRUE]

OpenBatchEvents == << Event("BatchOpened", <<OpenBatchTarget>>) >>

openBatch(c) ==
    LET err == OpenBatchError(c) IN
    /\ err = "ok" => OpenBatchTarget <= MaxBatchId
    /\ IF err = "ok"
       THEN /\ currentBatchId' = OpenBatchTarget
            /\ batches' = [batches EXCEPT
                             ![OpenBatchTarget] = NewBatch(OpenBatchTarget)]
       ELSE UNCHANGED ledger
    /\ UNCHANGED <<admin, cooldowns, oracle, clock, trail,
                   front>>

\* closeBatch without the test of line 928
CloseBatchError_NoOpenTest(c) ==
    IF OnlyOwnerError(c) # "ok" THEN OnlyOwnerError(c) ELSE WhenNotPausedError

\* onlyOwner whenNotPaused, then the open test of line 928
CloseBatchError(c) ==
    IF OpenBatchError(c) # "ok" THEN OpenBatchError(c)
    ELSE IF ~batches[currentBatchId].open THEN "BatchClosed" ELSE "ok"

CloseBatchEvents == << Event("BatchClosed", <<currentBatchId>>) >>

closeBatch(c) ==
    /\ batches' = IF CloseBatchError(c) = "ok"
                  THEN [batches EXCEPT ![currentBatchId].open = FALSE]
                  ELSE batches
    /\ UNCHANGED <<admin, cooldowns, currentBatchId, oracle, clock, trail,
                   front>>

----------------------------------------------------------------------------
(* RateLimiter: the tests of lines 938 and 961 *)

\* uint256 values are written in 256-bit two's complement: n >= 0 is n and
\* n < 0 is 2^256 + n, so -1 is the largest uint256.
\* the checked sum a + b of Solidity 0.8 leaves 256 bits
AddOverflows(a, b) ==
    \/ a < 0 /\ b < 0
    \/ (a < 0 \/ b < 0) /\ a + b >= 0

\* a < b as unsigned numbers
LessU(a, b) == IF (a < 0) = (b < 0) THEN a < b ELSE b < 0

\* the sum last + cooldownSeconds of lines 938 and 961 reverts with Panic
CooldownOverflows(last) == AddOverflows(last, cooldownSeconds)

\* the test of line 938 with <= in place of <
CooldownActive_Inclusive(last) == now <= last + cooldownSeconds

\* block.timestamp < last + cooldownSeconds
CooldownActive(last) == LessU(now, last + cooldownSeconds)

\* one timestamp for the whole contract instead of one per address
Stamp_Global(last, c) == [a \in Addrs |-> now]

\* lines 943 and 966: last[msg.sender] = block.timestamp
Stamp(last, c) == [last EXCEPT ![c] = now]

----------------------------------------------------------------------------
(* AggregationEngine: lines 933-958 *)

\* submitPartyAttributes storing the inputs in place of the sums
Accumulate_Overwrite(b, contribution) ==
    [b EXCEPT
       !.totalEncryptedPartyStrength = contribution[1],
       !.totalEncryptedPartyAgility = contribution[2],
       !.totalEncryptedPartyIntellect = contribution[3]]

\* submitPartyAttributes testing the batch before the cooldown
SubmitError_BatchFirst(c) ==
    IF OnlyProviderError(c) # "ok" THEN OnlyProviderError(c)
    ELSE IF WhenNotPausedError # "ok" THEN WhenNotPausedError
    ELSE IF ~batches[currentBatchId].open THEN "BatchClosed"
    ELSE IF CooldownActive(lastSubmissionTime[c]) THEN "CooldownActive"
    ELSE "ok"

\* submitPartyAttributes testing the pause flag after the cooldown
SubmitError_CooldownFirst(c) ==
    IF OnlyProviderError(c) # "ok" THEN OnlyProviderError(c)
    ELSE IF CooldownActive(lastSubmissionTime[c]) THEN "CooldownActive"
    ELSE IF WhenNotPausedError # "ok" THEN WhenNotPausedError
    ELSE IF ~batches[currentBatchId].open THEN "BatchClosed"
    ELSE "ok"

\* onlyProvider whenNotPaused, then the cooldown and the open test
SubmitError(c) ==
    IF OnlyProviderError(c) # "ok" THEN OnlyProviderError(c)
    ELSE IF WhenNotPausedError # "ok" THEN WhenNotPausedError
    ELSE IF CooldownOverflows(lastSubmissionTime[c]) THEN "Panic"
    ELSE IF CooldownActive(lastSubmissionTime[c]) THEN "CooldownActive"
    ELSE IF ~batches[currentBatchId].open THEN "BatchClosed"
    ELSE "ok"

\* the batch submitPartyAttributes adds into
SubmitTarget == currentBatchId

\* lines 945-955: each accumulator replaced by FHE.add(accumulator, input)
Accumulate(b, contribution) ==
    [b EXCEPT
       !.totalEncryptedPartyStrength =
           FHEadd(b.totalEncryptedPartyStrength, contribution[1]),
       !.totalEncryptedPartyAgility =
           FHEadd(b.totalEncryptedPartyAgility, contribution[2]),
       !.totalEncryptedPartyIntellect =
           FHEadd(b.totalEncryptedPartyIntellect, contribution[3])]

\* request ids the oracle has handed out
Issued == 0..(nextRequestId - 1)

\* history: a contribution landed on batch id while request r was pending
MarkStale(id) ==
    [r \in RequestIds |->
        IF /\ r \in Issued
           /\ decryptionContexts[r].batchId = id
           /\ ~decryptionContexts[r].processed
        THEN [trail[r] EXCEPT !.stale = TRUE]
        ELSE trail[r]]

SubmitEvents(c) == << Event("PartyAttributesSubmitted", <<currentBatchId, c>>) >>

submitPartyAttributes(c, contribution) ==
    LET err == SubmitError(c) IN
    /\ err = "ok" =>
           Depth(batches[SubmitTarget].totalEncryptedPartyStrength) < MaxDepth
    /\ IF err = "ok"
       THEN /\ lastSubmissionTime' = Stamp(lastSubmissionTime, c)
            /\ batches' = [batches EXCEPT ![SubmitTarget] =
                              Accumulate(batches[SubmitTarget], contribution)]
            /\ trail' = MarkStale(SubmitTarget)
       ELSE UNCHANGED <<lastSubmissionTime, batches, trail>>
    /\ UNCHANGED <<admin, lastDecryptionRequestTime, currentBatchId, oracle,
                   clock, front>>

----------------------------------------------------------------------------
(* DecryptionOracleBridge: lines 960-998 *)

GenerateError(c) ==
    IF OnlyProviderError(c) # "ok" THEN OnlyProviderError(c)
    ELSE IF WhenNotPausedError # "ok" THEN WhenNotPausedError
    ELSE IF CooldownOverflows(lastDecryptionRequestTime[c]) THEN "Panic"
    ELSE IF CooldownActive(lastDecryptionRequestTime[c]) THEN "CooldownActive"
    ELSE IF ~batches[currentBatchId].open THEN "BatchClosed"
    ELSE "ok"

\* lines 968-978: seed = FHE.add(FHE.mul(strength, agility), intellect)
WithSeed(b) ==
    [b EXCEPT !.dungeonSeed =
        FHEadd(FHEmul(b.totalEncryptedPartyStrength,
                      b.totalEncryptedPartyAgility),
               b.totalEncryptedPartyIntellect)]

\* a context keyed by its batch instead of by the request id
RequestDecryption_PerBatch == currentBatchId - FirstBatchId

\* the id FHE.requestDecryption returns: a fresh one on every request
RequestDecryption == nextRequestId

\* lines 991-995
NewContext(id, cts) ==
    [batchId |-> id, stateHash |-> HashCiphertexts(cts), processed |-> FALSE]

GenerateEvents ==
    << Event("DungeonSeedGenerated", <<currentBatchId>>),
       Event("DecryptionRequested", <<RequestDecryption, currentBatchId>>) >>

generateDungeonSeed(c) ==
    LET err == GenerateError(c)
        seeded == WithSeed(batches[currentBatchId])
        cts == BatchCts(seeded)
        requestId == RequestDecryption
    IN
    /\ err = "ok" => nextRequestId < MaxRequests
    /\ IF err = "ok"
       THEN /\ lastDecryptionRequestTime' =
                   Stamp(lastDecryptionRequestTime, c)
            /\ batches' = [batches EXCEPT ![currentBatchId] = seeded]
            /\ decryptionContexts' = [decryptionContexts EXCEPT ![requestId] =
                                          NewContext(currentBatchId, cts)]
            /\ nextRequestId' = nextRequestId + 1
            /\ requests' = [requests EXCEPT ![requestId] = cts]
       ELSE UNCHANGED <<lastDecryptionRequestTime, batches, oracle>>
    /\ UNCHANGED <<admin, lastSubmissionTime, currentBatchId, clock, trail,
                   front>>

----------------------------------------------------------------------------
(* CallbackVerifier: lines 1000-1031 *)

\* myCallback without the comparison of line 1023
CallbackError_NoStateCheck(r, proofOk) ==
    LET ctx == decryptionContexts[r]
        batch == batches[ctx.batchId]
    IN  IF ctx.processed THEN "ReplayAttempt"
        ELSE IF batch.id = 0 THEN "InvalidBatchId"
        ELSE IF ~proofOk THEN "ProofInvalid"
        ELSE "ok"

\* myCallback carrying the modifier whenNotPaused
CallbackError_PauseGated(r, proofOk) ==
    LET ctx == decryptionContexts[r]
        batch == batches[ctx.batchId]
    IN  IF WhenNotPausedError # "ok" THEN WhenNotPausedError
        ELSE IF ctx.processed THEN "ReplayAttempt"
        ELSE IF batch.id = 0 THEN "InvalidBatchId"
        ELSE IF HashCiphertexts(BatchCts(batch)) # ctx.stateHash
             THEN "StateMismatch"
        ELSE IF ~proofOk THEN "ProofInvalid"
        ELSE "ok"

\* myCallback verifying the proof before comparing the state
CallbackError_ProofFirst(r, proofOk) ==
    LET ctx == decryptionContexts[r]
        batch == batches[ctx.batchId]
    IN  IF ctx.processed THEN "ReplayAttempt"
        ELSE IF batch.id = 0 THEN "InvalidBatchId"
        ELSE IF ~proofOk THEN "ProofInvalid"
        ELSE IF HashCiphertexts(BatchCts(batch)) # ctx.stateHash
             THEN "StateMismatch"
        ELSE "ok"

\* myCallback refusing deliveries once no provider is left
CallbackError_NeedsProvider(r, proofOk) ==
    LET ctx == decryptionContexts[r]
        batch == batches[ctx.batchId]
    IN  IF ctx.processed THEN "ReplayAttempt"
        ELSE IF batch.id = 0 THEN "InvalidBatchId"
        ELSE IF HashCiphertexts(BatchCts(batch)) # ctx.stateHash
             THEN "StateMismatch"
        ELSE IF providers = {} THEN "NotProvider"
        ELSE IF ~proofOk THEN "ProofInvalid"
        ELSE "ok"

\* myCallback without the existence test of line 1010
CallbackError_NoBatchCheck(r, proofOk) ==
    LET ctx == decryptionContexts[r]
        batch == batches[ctx.batchId]
    IN  IF ctx.processed THEN "ReplayAttempt"
        ELSE IF HashCiphertexts(BatchCts(batch)) # ctx.stateHash
             THEN "StateMismatch"
        ELSE IF ~proofOk THEN "ProofInvalid"
        ELSE "ok"

\* the checks of myCallback in the order the code makes them;
\* proofOk is the verdict of FHE.checkSignatures
CallbackError(r, proofOk) ==
    LET ctx == decryptionContexts[r]
        batch == batches[ctx.batchId]
    IN  IF ctx.processed THEN "ReplayAttempt"
        ELSE IF batch.id = 0 THEN "InvalidBatchId"
        ELSE IF HashCiphertexts(BatchCts(batch)) # ctx.stateHash
             THEN "StateMismatch"
        ELSE IF ~proofOk THEN "ProofInvalid"
        ELSE "ok"

\* myCallback without the assignment of line 1029
Finalize_Forgets(ctx, err) == ctx

\* myCallback marking the context before the proof is verified
Finalize_BeforeProof(ctx, err) ==
    IF err \in {"ok", "ProofInvalid"} THEN [ctx EXCEPT !.processed = TRUE]
    ELSE ctx

\* line 1029: what a call with outcome err leaves in the context
Finalize(ctx, err) ==
    IF err = "ok" THEN [ctx EXCEPT !.processed = TRUE] ELSE ctx

CallbackEvents(r, cleartexts) ==
    << Event("DecryptionCompleted",
             <<r, decryptionContexts[r].batchId>> \o cleartexts) >>

\* history: a delivery with outcome err counted in the record of its request
Delivered(t, err) ==
    [t EXCEPT !.finals = IF err = "ok" THEN @ + 1 ELSE @]

myCallback(r, cleartexts, proofOk) ==
    LET err == CallbackError(r, proofOk) IN
    /\ decryptionContexts' =
           [decryptionContexts EXCEPT ![r] = Finalize(@, err)]
    /\ trail' = [trail EXCEPT ![r] = Delivered(@, err)]
    /\ UNCHANGED <<admin, cooldowns, ledger, nextRequestId, requests, clock,
                   front>>

----------------------------------------------------------------------------
(* Time passing between calls *)

Tick(d) ==
    /\ now + d <= StartTime + MaxTicks * DefaultCooldown
    /\ now' = now + d
    /\ UNCHANGED <<admin, cooldowns, ledger, oracle, trail, front>>

----------------------------------------------------------------------------
(* The web client's operations.  An asynchronous function runs as a call   *)
(* that takes one step for each await that changes what can be seen.  A    *)
(* getData is one step: the read, with the function going on from it.  A   *)
(* setData is two: the store takes the write, then the function goes on.   *)

chain == <<admin, cooldowns, ledger, oracle, clock, trail>>
store == <<dungeonKeys, records>>
ghost == <<nextDungeon, made, finished>>
modal == <<showCreateModal, newDungeonData>>
detail == <<selectedDungeon, decryptedAttributes, isDecrypting>>

\* calls under way and timers armed in a session
Pending(s) ==
    Len(calls[s]) + Len(timers[s].hide) + Len(timers[s].created)

SetCall(s, i, c) == calls' = [calls EXCEPT ![s][i] = c]
DropCall(s, i) == calls' = [calls EXCEPT ![s] = RemoveAt(@, i)]
StartCall(s, c) == calls' = [calls EXCEPT ![s] = Append(@, c)]
\* setTimeout: the timer is due delay seconds from now
Arm(s, timer, delay) ==
    timers' = [timers EXCEPT ![s][timer] = Append(@, now + delay)]

\* the times at which the timers of a session are due
DueTimes(s) ==
    {timers[s].hide[t] : t \in DOMAIN timers[s].hide}
        \cup {timers[s].created[t] : t \in DOMAIN timers[s].created}

\* a timer fires once its delay has passed, and no timer due earlier waits
Fires(s, due) == due <= now /\ \A other \in DueTimes(s) : due <= other
Show(s, status, message) ==
    transactionStatus' = [transactionStatus EXCEPT ![s] =
                              Shown(status, message)]

\* wagmi's useAccount reports a wallet
connect(s) ==
    /\ ~isConnected[s]
    /\ isConnected' = [isConnected EXCEPT ![s] = TRUE]
    /\ UNCHANGED <<chain, store, ghost, modal, detail, creating,
                   isRefreshing, loading, dungeons, dungeonLayout,
                   transactionStatus, timers, calls>>

\* the New Dungeon button, rendered once loading is over:
\* setShowCreateModal(true)
openCreate(s) ==
    /\ ~loading[s]
    /\ showCreateModal' = [showCreateModal EXCEPT ![s] = TRUE]
    /\ UNCHANGED <<chain, store, ghost, detail, newDungeonData, isConnected,
                   creating, isRefreshing, loading, dungeons, dungeonLayout,
                   transactionStatus, timers, calls>>

\* onClose of ModalCreate
closeCreate(s) ==
    /\ showCreateModal[s]
    /\ showCreateModal' = [showCreateModal EXCEPT ![s] = FALSE]
    /\ UNCHANGED <<chain, store, ghost, detail, newDungeonData, isConnected,
                   creating, isRefreshing, loading, dungeons, dungeonLayout,
                   transactionStatus, timers, calls>>

\* ModalCreate.handleChange on the name input
handleChange(s, text) ==
    /\ showCreateModal[s]
    /\ newDungeonData' = [newDungeonData EXCEPT ![s].dungeonName = text]
    /\ UNCHANGED <<chain, store, ghost, detail, showCreateModal, isConnected,
                   creating, isRefreshing, loading, dungeons, dungeonLayout,
                   transactionStatus, timers, calls>>

\* ModalCreate.handleValueChange on a number input
handleValueChange(s, field, text) ==
    /\ showCreateModal[s]
    /\ newDungeonData' = [newDungeonData EXCEPT ![s][field] = ParseFloat(text)]
    /\ UNCHANGED <<chain, store, ghost, detail, showCreateModal, isConnected,
                   creating, isRefreshing, loading, dungeons, dungeonLayout,
                   transactionStatus, timers, calls>>

\* loadDungeons returns: its finally, and what its caller does next:
\* createDungeon arms the timer of line 178 and ends, exploreDungeon arms
\* the one of line 244
LoadReturns(s, i) ==
    /\ isRefreshing' = [isRefreshing EXCEPT ![s] = FALSE]
    /\ loading' = [loading EXCEPT ![s] = FALSE]
    /\ creating' = IF calls[s][i].op = "create"
                   THEN [creating EXCEPT ![s] = FALSE] ELSE creating
    /\ IF calls[s][i].op = "create" THEN Arm(s, "created", SuccessDelay)
       ELSE IF calls[s][i].op = "explore" THEN Arm(s, "hide", SuccessDelay)
       ELSE UNCHANGED timers
    /\ DropCall(s, i)

\* the Refresh button, disabled while isRefreshing
refresh(s) ==
    /\ ~loading[s]
    /\ ~isRefreshing[s]
    /\ Pending(s) < MaxPending
    /\ isRefreshing' = [isRefreshing EXCEPT ![s] = TRUE]
    /\ StartCall(s, Call("refresh", "load_keys"))
    /\ UNCHANGED <<chain, store, ghost, modal, detail, isConnected, creating,
                   loading, dungeons, dungeonLayout, transactionStatus,
                   timers>>

\* loadDungeons up to its getData("dungeon_keys"); it returns at once when
\* there is no contract or isAvailable is false, and sets an empty list
\* when there are no keys
loadKeys(s, i, available) ==
    /\ calls[s][i].pc = "load_keys"
    /\ IF ~available
       THEN LoadReturns(s, i) /\ UNCHANGED dungeons
       ELSE IF dungeonKeys = <<>>
       THEN /\ dungeons' = [dungeons EXCEPT ![s] = <<>>]
            /\ LoadReturns(s, i)
       ELSE /\ SetCall(s, i, [calls[s][i] EXCEPT !.pc = "load_record",
                                                 !.keys = dungeonKeys,
                                                 !.k = 1, !.list = <<>>])
            /\ UNCHANGED <<dungeons, isRefreshing, loading, creating, timers>>
    /\ UNCHANGED <<chain, store, ghost, modal, detail, isConnected,
                   dungeonLayout, transactionStatus>>

\* the list after the getData of one key
WithRecord(list, key) ==
    IF key \in DOMAIN records THEN Append(list, Listed(key, records[key]))
    ELSE list

\* one getData of loadDungeons' loop; after the last, sort and setDungeons
loadRecord(s, i) ==
    LET c == calls[s][i]
        list == WithRecord(c.list, c.keys[c.k])
    IN  /\ c.pc = "load_record"
        /\ IF c.k = Len(c.keys)
           THEN /\ dungeons' = [dungeons EXCEPT ![s] = Sorted(list)]
                /\ LoadReturns(s, i)
           ELSE /\ SetCall(s, i, [c EXCEPT !.k = c.k + 1, !.list = list])
                /\ UNCHANGED <<dungeons, isRefreshing, loading, creating,
                               timers>>
        /\ UNCHANGED <<chain, store, ghost, modal, detail, isConnected,
                       dungeonLayout, transactionStatus>>

\* the catch and finally of createDungeon
CreateFails(s, i, message) ==
    /\ Show(s, "error", message)
    /\ Arm(s, "hide", ErrorDelay)
    /\ creating' = [creating EXCEPT ![s] = FALSE]
    /\ DropCall(s, i)

\* the message createDungeon's catch shows for an outcome
CreateError(outcome) ==
    IF outcome = "rejected" THEN "Transaction rejected by user"
    ELSE "Creation failed: " \o NoSignerMessage

\* createDungeon calls that have not drawn their id yet
Undrawn ==
    Cardinality({c \in UNION {{<<s, i>> : i \in DOMAIN calls[s]} :
                                 s \in Sessions} :
                    /\ calls[c[1]][c[2]].op = "create"
                    /\ calls[c[1]][c[2]].pc = "signer"})

\* the Create Dungeon button, disabled while creating: handleSubmit, and
\* createDungeon up to its await of getContractWithSigner
handleSubmit(s) ==
    /\ showCreateModal[s]
    /\ ~creating[s]
    /\ Pending(s) < MaxPending
    /\ nextDungeon + Undrawn <= MaxDungeons
    /\ IF FormAccepted(newDungeonData[s]) /\ isConnected[s]
       THEN /\ creating' = [creating EXCEPT ![s] = TRUE]
            /\ Show(s, "pending",
                    "Encrypting party attributes with Zama FHE...")
            /\ StartCall(s, [Call("create", "signer") EXCEPT
                                 !.form = newDungeonData[s]])
       ELSE UNCHANGED <<creating, transactionStatus, calls>>
    /\ UNCHANGED <<chain, store, ghost, modal, detail, isConnected,
                   isRefreshing, loading, dungeons, dungeonLayout, timers>>

\* getContractWithSigner returns to createDungeon: without a contract the
\* catch runs, else the id is drawn and the record built, with the time read
\* here, and setData is called
createSigner(s, i, signer) ==
    LET c == calls[s][i]
    IN  /\ c.op = "create" /\ c.pc = "signer"
        /\ IF signer
           THEN /\ nextDungeon' = nextDungeon + 1
                /\ SetCall(s, i, [c EXCEPT
                       !.pc = "setData",
                       !.id = nextDungeon,
                       !.data = NewDungeonData(c.form, Wallet(s), now)])
                /\ UNCHANGED <<transactionStatus, timers, creating>>
           ELSE /\ CreateFails(s, i, CreateError("no signer"))
                /\ UNCHANGED nextDungeon
        /\ UNCHANGED <<chain, store, made, finished, modal, detail,
                       isConnected, isRefreshing, loading, dungeons,
                       dungeonLayout>>

\* the setData of the record: the store takes it, or the wallet refuses the
\* transaction
createSetData(s, i, outcome) ==
    LET c == calls[s][i]
    IN  /\ c.op = "create" /\ c.pc = "setData"
        /\ outcome # "no signer"
        /\ IF outcome = "applied"
           THEN /\ records' = (c.id :> c.data) @@ records
                /\ made' = (c.id :> c.form) @@ made
                /\ SetCall(s, i, [c EXCEPT !.pc = "getKeys"])
                /\ UNCHANGED <<transactionStatus, timers, creating>>
           ELSE /\ CreateFails(s, i, CreateError(outcome))
                /\ UNCHANGED <<records, made>>
        /\ UNCHANGED <<chain, dungeonKeys, nextDungeon, finished, modal,
                       detail, isConnected, isRefreshing, loading, dungeons,
                       dungeonLayout>>

\* createDungeon's getData("dungeon_keys")
createGetKeys(s, i) ==
    LET c == calls[s][i]
    IN  /\ c.op = "create" /\ c.pc = "getKeys"
        /\ SetCall(s, i, [c EXCEPT !.pc = "setKeys", !.keys = dungeonKeys])
        /\ UNCHANGED <<chain, store, ghost, modal, detail, isConnected,
                       creating, isRefreshing, loading, dungeons,
                       dungeonLayout, transactionStatus, timers>>

\* keys.push(dungeonId), and the store taking the list or the wallet
\* refusing the transaction
createSetKeys(s, i, outcome) ==
    LET c == calls[s][i]
    IN  /\ c.op = "create" /\ c.pc = "setKeys"
        /\ outcome # "no signer"
        /\ IF outcome = "applied"
           THEN /\ dungeonKeys' = Append(c.keys, c.id)
                /\ finished' = finished \cup {c.id}
                /\ SetCall(s, i, [c EXCEPT !.pc = "ack"])
                /\ UNCHANGED <<transactionStatus, timers, creating>>
           ELSE /\ CreateFails(s, i, CreateError(outcome))
                /\ UNCHANGED <<dungeonKeys, finished>>
        /\ UNCHANGED <<chain, records, nextDungeon, made, modal, detail,
                       isConnected, isRefreshing, loading, dungeons,
                       dungeonLayout>>

\* createDungeon goes on after its second setData: the success status, and
\* loadDungeons up to its first await
createAck(s, i) ==
    LET c == calls[s][i]
    IN  /\ c.op = "create" /\ c.pc = "ack"
        /\ Show(s, "success", CreatedMessage)
        /\ isRefreshing' = [isRefreshing EXCEPT ![s] = TRUE]
        /\ SetCall(s, i, [c EXCEPT !.pc = "load_keys"])
        /\ UNCHANGED <<chain, store, ghost, modal, detail, isConnected,
                       creating, loading, dungeons, dungeonLayout, timers>>

\* exploreDungeon with no test of the status it read
ExploreError_AnyStatus(id) ==
    IF id \notin DOMAIN records THEN "Dungeon not found" ELSE "ok"

\* the errors exploreDungeon throws after its getData
ExploreError(id) ==
    IF id \notin DOMAIN records THEN "Dungeon not found"
    ELSE IF records[id].status # "ready"
    THEN "Dungeon not ready for exploration"
    ELSE "ok"

\* the catch of exploreDungeon
ExploreFails(s, i, message) ==
    /\ Show(s, "error", "Exploration failed: " \o message)
    /\ Arm(s, "hide", ErrorDelay)
    /\ DropCall(s, i)

\* isOwner, and the test that shows the Explore button on a listed dungeon
CanExplore(s, dungeon) ==
    dungeon.status = "ready" /\ isConnected[s] /\ dungeon.owner = Wallet(s)

\* the Explore button of a listed dungeon: exploreDungeon up to its first
\* await
exploreDungeon(s, j) ==
    /\ ~loading[s]
    /\ j \in DOMAIN dungeons[s]
    /\ CanExplore(s, dungeons[s][j])
    /\ Pending(s) < MaxPending
    /\ Show(s, "pending", "Generating dungeon with FHE attributes...")
    /\ StartCall(s, [Call("explore", "getData") EXCEPT
                         !.id = dungeons[s][j].id])
    /\ UNCHANGED <<chain, store, ghost, modal, detail, isConnected, creating,
                   isRefreshing, loading, dungeons, dungeonLayout, timers>>

\* exploreDungeon's getData of the record, its tests and setDungeonLayout
exploreGetData(s, i, available) ==
    LET c == calls[s][i]
        error == IF ~available THEN "Failed to get contract"
                 ELSE ExploreError(c.id)
    IN  /\ c.op = "explore" /\ c.pc = "getData"
        /\ IF error = "ok"
           THEN /\ dungeonLayout' = [dungeonLayout EXCEPT ![s] =
                       generateDungeon(records[c.id].attributes).layout]
                /\ SetCall(s, i, [c EXCEPT !.pc = "setData",
                                           !.data = records[c.id]])
                /\ UNCHANGED <<transactionStatus, timers>>
           ELSE /\ ExploreFails(s, i, error)
                /\ UNCHANGED dungeonLayout
        /\ UNCHANGED <<chain, store, ghost, modal, detail, isConnected,
                       creating, isRefreshing, loading, dungeons>>

\* exploreDungeon from getContractWithSigner to the store taking the record
exploreSetData(s, i, outcome) ==
    LET c == calls[s][i]
    IN  /\ c.op = "explore" /\ c.pc = "setData"
        /\ IF outcome = "applied"
           THEN /\ records' = (c.id :> Stored(UpdatedDungeon(c.data)))
                              @@ records
                /\ SetCall(s, i, [c EXCEPT !.pc = "ack"])
                /\ UNCHANGED <<transactionStatus, timers>>
           ELSE /\ ExploreFails(s, i, IF outcome = "rejected"
                                      THEN RejectedMessage
                                      ELSE NoSignerMessage)
                /\ UNCHANGED records
        /\ UNCHANGED <<chain, dungeonKeys, ghost, modal, detail, isConnected,
                       creating, isRefreshing, loading, dungeons,
                       dungeonLayout>>

\* exploreDungeon goes on after its setData: the success status, and
\* loadDungeons up to its first await
exploreAck(s, i) ==
    LET c == calls[s][i]
    IN  /\ c.op = "explore" /\ c.pc = "ack"
        /\ Show(s, "success", "Dungeon explored successfully!")
        /\ isRefreshing' = [isRefreshing EXCEPT ![s] = TRUE]
        /\ SetCall(s, i, [c EXCEPT !.pc = "load_keys"])
        /\ UNCHANGED <<chain, store, ghost, modal, detail, isConnected,
                       creating, loading, dungeons, dungeonLayout, timers>>

\* a timer that hides the status: lines 186, 244 and 247
hideStatus(s, t) ==
    /\ t \in DOMAIN timers[s].hide
    /\ Fires(s, timers[s].hide[t])
    /\ timers' = [timers EXCEPT ![s].hide = RemoveAt(@, t)]
    /\ transactionStatus' = [transactionStatus EXCEPT ![s] = Hidden]
    /\ UNCHANGED <<chain, store, ghost, modal, detail, isConnected, creating,
                   isRefreshing, loading, dungeons, dungeonLayout, calls>>

\* the timer of a creation, lines 178-182: hides the status, closes
\* ModalCreate and clears the form
createdTimeout(s, t) ==
    /\ t \in DOMAIN timers[s].created
    /\ Fires(s, timers[s].created[t])
    /\ timers' = [timers EXCEPT ![s].created = RemoveAt(@, t)]
    /\ transactionStatus' = [transactionStatus EXCEPT ![s] = Hidden]
    /\ showCreateModal' = [showCreateModal EXCEPT ![s] = FALSE]
    /\ newDungeonData' = [newDungeonData EXCEPT ![s] = EmptyForm]
    /\ UNCHANGED <<chain, store, ghost, detail, isConnected, creating,
                   isRefreshing, loading, dungeons, dungeonLayout, calls>>

\* a second passes on the clock Date.now() reads
second ==
    /\ now < StartTime + MaxSeconds
    /\ \E d \in FineSteps : Tick(d)

\* a click on a listed dungeon opens DungeonDetailModal
selectDungeon(s, j) ==
    /\ ~loading[s]
    /\ j \in DOMAIN dungeons[s]
    /\ selectedDungeon' = [selectedDungeon EXCEPT ![s] = <<dungeons[s][j]>>]
    /\ UNCHANGED <<chain, store, ghost, modal, decryptedAttributes,
                   isDecrypting, isConnected, creating, isRefreshing,
                   loading, dungeons, dungeonLayout, transactionStatus,
                   timers, calls>>

\* onClose of DungeonDetailModal
closeDetail(s) ==
    /\ selectedDungeon[s] # <<>>
    /\ selectedDungeon' = [selectedDungeon EXCEPT ![s] = <<>>]
    /\ decryptedAttributes' = [decryptedAttributes EXCEPT ![s] = <<>>]
    /\ dungeonLayout' = [dungeonLayout EXCEPT ![s] = <<>>]
    /\ UNCHANGED <<chain, store, ghost, modal, isDecrypting, isConnected,
                   creating, isRefreshing, loading, dungeons,
                   transactionStatus, timers, calls>>

\* the fields decryptWithSignature computes once the message is signed
decryptWithSignature(encryptedData) ==
    SplitAttributes(FHEDecryptNumber(encryptedData))

\* the Decrypt button, disabled while isDecrypting: handleDecrypt hides
\* shown attributes, else calls decryptWithSignature, which returns null at
\* once without a wallet and else waits for the signature
handleDecrypt(s) ==
    /\ selectedDungeon[s] # <<>>
    /\ ~isDecrypting[s]
    /\ IF decryptedAttributes[s] # <<>>
       THEN /\ decryptedAttributes' =
                   [decryptedAttributes EXCEPT ![s] = <<>>]
            /\ UNCHANGED <<isDecrypting, calls>>
       ELSE IF ~isConnected[s]
       THEN UNCHANGED <<decryptedAttributes, isDecrypting, calls>>
       ELSE /\ Pending(s) < MaxPending
            /\ isDecrypting' = [isDecrypting EXCEPT ![s] = TRUE]
            /\ StartCall(s, [Call("decrypt", "sign") EXCEPT !.data =
                   [NoData EXCEPT !.attributes =
                        selectedDungeon[s][1].encryptedAttributes]])
            /\ UNCHANGED decryptedAttributes
    /\ UNCHANGED <<chain, store, ghost, modal, selectedDungeon, isConnected,
                   creating, isRefreshing, loading, dungeons, dungeonLayout,
                   transactionStatus, timers>>

\* signMessageAsync returns: a refused signature ends the call with
\* nothing decoded, else the wait of line 196 starts
decryptSigned(s, i, signed) ==
    LET c == calls[s][i]
    IN  /\ c.op = "decrypt" /\ c.pc = "sign"
        /\ IF signed
           THEN /\ SetCall(s, i, [c EXCEPT !.pc = "wait",
                                           !.due = now + SignatureDelay])
                /\ UNCHANGED isDecrypting
           ELSE /\ isDecrypting' = [isDecrypting EXCEPT ![s] = FALSE]
                /\ DropCall(s, i)
        /\ UNCHANGED <<chain, store, ghost, modal, selectedDungeon,
                       decryptedAttributes, isConnected, creating,
                       isRefreshing, loading, dungeons, dungeonLayout,
                       transactionStatus, timers>>

\* the wait of line 196 is over: the decoded fields are set
decryptReturns(s, i) ==
    LET c == calls[s][i]
    IN  /\ c.op = "decrypt" /\ c.pc = "wait"
        /\ c.due <= now
        /\ decryptedAttributes' =
               [decryptedAttributes EXCEPT ![s] =
                   <<decryptWithSignature(c.data.attributes)>>]
        /\ isDecrypting' = [isDecrypting EXCEPT ![s] = FALSE]
        /\ DropCall(s, i)
        /\ UNCHANGED <<chain, store, ghost, modal, selectedDungeon,
                       isConnected, creating, isRefreshing, loading,
                       dungeons, dungeonLayout, transactionStatus, timers>>

----------------------------------------------------------------------------
(* Two sessions that create and explore dungeons on a store that holds one  *)
(* dungeon marked ready.  Each session starts where its wallet is          *)
(* connected, the list is loaded, and ModalCreate is open with a form      *)
(* typed in.                                                               *)

InitClient ==
    /\ InitChain
    /\ InitSessions
    /\ dungeonKeys = <<Seeded>>
    /\ records = (Seeded :> SeededRecord)

\* every session after connect, the load of the mount, openCreate and typing
InitStore ==
    /\ InitChain
    /\ isConnected = [s \in Sessions |-> TRUE]
    /\ showCreateModal = [s \in Sessions |-> TRUE]
    /\ newDungeonData = [s \in Sessions |-> PlainForm]
    /\ creating = [s \in Sessions |-> FALSE]
    /\ isRefreshing = [s \in Sessions |-> FALSE]
    /\ loading = [s \in Sessions |-> FALSE]
    /\ isDecrypting = [s \in Sessions |-> FALSE]
    /\ selectedDungeon = [s \in Sessions |-> <<>>]
    /\ decryptedAttributes = [s \in Sessions |-> <<>>]
    /\ dungeons = [s \in Sessions |-> <<Listed(Seeded, SeededRecord)>>]
    /\ dungeonLayout = [s \in Sessions |-> <<>>]
    /\ transactionStatus = [s \in Sessions |-> Hidden]
    /\ timers = [s \in Sessions |-> NoTimers]
    /\ calls = [s \in Sessions |-> <<>>]
    /\ nextDungeon = 1
    /\ made = EmptyRecords
    /\ finished = {}
    /\ dungeonKeys = <<Seeded>>
    /\ records = (Seeded :> SeededRecord)

NextStore ==
    \/ \E s \in Sessions : handleSubmit(s)
    \/ \E s \in Sessions : \E i \in DOMAIN calls[s], signer \in BOOLEAN :
           createSigner(s, i, signer)
    \/ \E s \in Sessions : \E i \in DOMAIN calls[s],
                              outcome \in WriteOutcomes :
           createSetData(s, i, outcome)
    \/ \E s \in Sessions : \E i \in DOMAIN calls[s] : createGetKeys(s, i)
    \/ \E s \in Sessions : \E i \in DOMAIN calls[s],
                              outcome \in WriteOutcomes :
           createSetKeys(s, i, outcome)
    \/ \E s \in Sessions : \E i \in DOMAIN calls[s] : createAck(s, i)
    \/ \E s \in Sessions : \E i \in DOMAIN calls[s], available \in BOOLEAN :
           loadKeys(s, i, available)
    \/ \E s \in Sessions : \E i \in DOMAIN calls[s] : loadRecord(s, i)
    \/ \E s \in Sessions : \E t \in DOMAIN timers[s].hide : hideStatus(s, t)
    \/ \E s \in Sessions : \E t \in DOMAIN timers[s].created :
           createdTimeout(s, t)
    \/ second

SpecStore == InitStore /\ [][NextStore]_vars

----------------------------------------------------------------------------
(* The owner of the seeded dungeon explores it and creates dungeons, with  *)
(* every outcome of its calls.                                             *)

NextExplore ==
    \/ \E s \in Solo : refresh(s)
    \/ \E s \in Solo : handleSubmit(s)
    \/ \E s \in Solo : \E i \in DOMAIN calls[s], signer \in BOOLEAN :
           createSigner(s, i, signer)
    \/ \E s \in Solo : \E i \in DOMAIN calls[s], outcome \in WriteOutcomes :
           createSetData(s, i, outcome)
    \/ \E s \in Solo : \E i \in DOMAIN calls[s] : createGetKeys(s, i)
    \/ \E s \in Solo : \E i \in DOMAIN calls[s], outcome \in WriteOutcomes :
           createSetKeys(s, i, outcome)
    \/ \E s \in Solo : \E i \in DOMAIN calls[s] : createAck(s, i)
    \/ \E s \in Solo : \E i \in DOMAIN calls[s], available \in BOOLEAN :
           loadKeys(s, i, available)
    \/ \E s \in Solo : \E i \in DOMAIN calls[s] : loadRecord(s, i)
    \/ \E s \in Solo : \E j \in DOMAIN dungeons[s] : exploreDungeon(s, j)
    \/ \E s \in Solo : \E i \in DOMAIN calls[s], available \in BOOLEAN :
           exploreGetData(s, i, available)
    \/ \E s \in Solo : \E i \in DOMAIN calls[s], outcome \in TxOutcomes :
           exploreSetData(s, i, outcome)
    \/ \E s \in Solo : \E i \in DOMAIN calls[s] : exploreAck(s, i)
    \/ \E s \in Solo : \E t \in DOMAIN timers[s].hide : hideStatus(s, t)
    \/ \E s \in Solo : \E t \in DOMAIN timers[s].created :
           createdTimeout(s, t)
    \/ second

SpecExplore == InitStore /\ [][NextExplore]_vars

----------------------------------------------------------------------------
(* One session from the mount of App, with every operation: it types      *)
(* forms, creates dungeons, lists, explores and decrypts them.             *)

NextDecode ==
    \/ \E s \in Solo : connect(s)
    \/ \E s \in Solo : openCreate(s)
    \/ \E s \in Solo : closeCreate(s)
    \/ \E s \in Solo, text \in TypedNames : handleChange(s, text)
    \/ \E s \in Solo, typed \in TypedNumbers :
           handleValueChange(s, typed[1], typed[2])
    \/ \E s \in Solo : handleSubmit(s)
    \/ \E s \in Solo : \E i \in DOMAIN calls[s], signer \in BOOLEAN :
           createSigner(s, i, signer)
    \/ \E s \in Solo : \E i \in DOMAIN calls[s], outcome \in WriteOutcomes :
           createSetData(s, i, outcome)
    \/ \E s \in Solo : \E i \in DOMAIN calls[s] : createGetKeys(s, i)
    \/ \E s \in Solo : \E i \in DOMAIN calls[s], outcome \in WriteOutcomes :
           createSetKeys(s, i, outcome)
    \/ \E s \in Solo : \E i \in DOMAIN calls[s] : createAck(s, i)
    \/ \E s \in Solo : refresh(s)
    \/ \E s \in Solo : \E i \in DOMAIN calls[s], available \in BOOLEAN :
           loadKeys(s, i, available)
    \/ \E s \in Solo : \E i \in DOMAIN calls[s] : loadRecord(s, i)
    \/ \E s \in Solo : \E t \in DOMAIN timers[s].hide : hideStatus(s, t)
    \/ \E s \in Solo : \E t \in DOMAIN timers[s].created :
           createdTimeout(s, t)
    \/ \E s \in Solo : \E j \in DOMAIN dungeons[s] : exploreDungeon(s, j)
    \/ \E s \in Solo : \E i \in DOMAIN calls[s], available \in BOOLEAN :
           exploreGetData(s, i, available)
    \/ \E s \in Solo : \E i \in DOMAIN calls[s], outcome \in TxOutcomes :
           exploreSetData(s, i, outcome)
    \/ \E s \in Solo : \E i \in DOMAIN calls[s] : exploreAck(s, i)
    \/ \E s \in Solo : \E j \in DOMAIN dungeons[s] : selectDungeon(s, j)
    \/ \E s \in Solo : closeDetail(s)
    \/ \E s \in Solo : handleDecrypt(s)
    \/ \E s \in Solo : \E i \in DOMAIN calls[s], signed \in BOOLEAN :
           decryptSigned(s, i, signed)
    \/ \E s \in Solo : \E i \in DOMAIN calls[s] : decryptReturns(s, i)
    \/ second

SpecDecode == InitClient /\ [][NextDecode]_vars

----------------------------------------------------------------------------
(* The protocol with the roles of deployment: owner and sole provider is   *)
(* the deployer, not paused, the default cooldown.                         *)

Next ==
    \/ \E c \in Addrs : openBatch(c)
    \/ \E c \in Addrs : closeBatch(c)
    \/ \E c \in Addrs, x \in Contributions : submitPartyAttributes(c, x)
    \/ \E c \in Addrs : generateDungeonSeed(c)
    \/ \E r \in RequestIds, x \in Cleartexts, ok \in BOOLEAN :
           myCallback(r, x, ok)
    \/ \E d \in TickSteps : Tick(d)

Spec == Init /\ [][Next]_vars

----------------------------------------------------------------------------
(* The roles changing under the batch ledger and the contributions: every  *)
(* administrative operation, by every caller.                              *)

NextAccess ==
    \/ \E c \in Addrs, a \in Addrs : transferOwnership(c, a)
    \/ \E c \in Addrs, a \in Addrs : addProvider(c, a)
    \/ \E c \in Addrs, a \in Addrs : removeProvider(c, a)
    \/ \E c \in Addrs, p \in BOOLEAN : setPaused(c, p)
    \/ \E c \in Addrs, secs \in CooldownChoices : setCooldownSeconds(c, secs)
    \/ \E c \in Addrs : openBatch(c)
    \/ \E c \in Addrs : closeBatch(c)
    \/ \E c \in Addrs, x \in RoleContributions : submitPartyAttributes(c, x)
    \/ \E d \in TickSteps : Tick(d)

SpecAccess == Init /\ [][NextAccess]_vars

----------------------------------------------------------------------------
(* Roles, pause and the whole protocol at one instant: no time passes, so  *)
(* every address submits and requests at most once under the default      *)
(* cooldown.                                                               *)

NextGate ==
    \/ \E c \in Addrs, a \in Addrs : transferOwnership(c, a)
    \/ \E c \in Addrs, a \in Addrs : addProvider(c, a)
    \/ \E c \in Addrs, a \in Addrs : removeProvider(c, a)
    \/ \E c \in Addrs, p \in BOOLEAN : setPaused(c, p)
    \/ \E c \in Addrs : openBatch(c)
    \/ \E c \in Addrs : closeBatch(c)
    \/ \E c \in Addrs, x \in RoleContributions : submitPartyAttributes(c, x)
    \/ \E c \in Addrs : generateDungeonSeed(c)
    \/ \E r \in RequestIds, x \in Cleartexts, ok \in BOOLEAN :
           myCallback(r, x, ok)

SpecGate == Init /\ [][NextGate]_vars

----------------------------------------------------------------------------
(* Every operation of the contract, by every caller, with time passing:    *)
(* the roles, the pause and the cooldown change freely, and MaxWork calls   *)
(* take effect on the batches, the requests and the clock.                 *)

RECURSIVE Folded(_)
\* contributions folded into the batches of ids
Folded(ids) ==
    IF ids = {} THEN 0
    ELSE LET id == CHOOSE i \in ids : TRUE IN
         Depth(batches[id].totalEncryptedPartyStrength) + Folded(ids \ {id})

\* batches opened, contributions folded, requests issued and cooldown
\* periods elapsed so far
Work ==
    Cardinality({id \in BatchIds : batches[id].id # 0})
        + Folded(BatchIds) + nextRequestId
        + (now - StartTime) \div DefaultCooldown

NextContract ==
    \/ \E c \in Addrs, a \in Addrs : transferOwnership(c, a)
    \/ \E c \in Addrs, a \in Addrs : addProvider(c, a)
    \/ \E c \in Addrs, a \in Addrs : removeProvider(c, a)
    \/ \E c \in Addrs, p \in BOOLEAN : setPaused(c, p)
    \/ \E c \in Addrs, secs \in CooldownChoices : setCooldownSeconds(c, secs)
    \/ \E c \in Addrs : Work < MaxWork /\ openBatch(c)
    \/ \E c \in Addrs : closeBatch(c)
    \/ \E c \in Addrs, x \in RoleContributions :
           Work < MaxWork /\ submitPartyAttributes(c, x)
    \/ \E c \in Addrs : Work < MaxWork /\ generateDungeonSeed(c)
    \/ \E r \in RequestIds, x \in Cleartexts, ok \in BOOLEAN :
           myCallback(r, x, ok)
    \/ \E d \in TickSteps : Work < MaxWork /\ Tick(d)

SpecContract == Init /\ [][NextContract]_vars

----------------------------------------------------------------------------
(* Submissions of the deployer followed second by second, under the        *)
(* cooldowns the owner sets.                                               *)

NextCooldown ==
    \/ \E c \in Addrs, secs \in FineCooldowns : setCooldownSeconds(c, secs)
    \/ \E c \in Addrs : openBatch(c)
    \/ \E c \in Addrs : closeBatch(c)
    \/ \E c \in Addrs, x \in RoleContributions : submitPartyAttributes(c, x)
    \/ \E d \in FineSteps : Tick(d)

SpecCooldown == Init /\ [][NextCooldown]_vars

----------------------------------------------------------------------------
(* Aggregation under the roles of deployment, with contributions large     *)
(* enough to wrap.                                                         *)

NextSums ==
    \/ \E c \in Addrs : openBatch(c)
    \/ \E c \in Addrs : closeBatch(c)
    \/ \E c \in Addrs, x \in WideContributions : submitPartyAttributes(c, x)
    \/ \E c \in Addrs : generateDungeonSeed(c)
    \/ \E d \in TickSteps : Tick(d)

SpecSums == Init /\ [][NextSums]_vars

----------------------------------------------------------------------------
(* Submissions and seed requests under cooldowns of any size.              *)

NextWide ==
    \/ \E c \in Addrs, secs \in WideCooldowns : setCooldownSeconds(c, secs)
    \/ \E c \in Addrs : openBatch(c)
    \/ \E c \in Addrs, x \in RoleContributions : submitPartyAttributes(c, x)
    \/ \E c \in Addrs : generateDungeonSeed(c)
    \/ \E d \in TickSteps : Tick(d)

SpecWide == Init /\ [][NextWide]_vars

----------------------------------------------------------------------------
(* Properties of the decryption protocol *)

\* the batch a context refers to
CtxBatch(r) == batches[decryptionContexts[r].batchId]

\* the batch of request r holds the four handles the request was made with
Matches(r) == BatchCts(CtxBatch(r)) = requests[r]

\* C1: whenever a delivery for request r finalizes it, the four handles
\* stored on the context's batch, before and after the call, are the four
\* handles generateDungeonSeed passed to the oracle when it issued r.
C1_FinalizedAgainstSnapshot ==
    [][\A r \in RequestIds :
          trail'[r].finals > trail[r].finals =>
              /\ r \in Issued
              /\ BatchCts(CtxBatch(r)) = requests[r]
              /\ BatchCts(batches'[decryptionContexts'[r].batchId]) = requests'[r]
      ]_vars

\* a request made after a contribution was finalized while another request,
\* made before the contribution, is stale
C1_Witness ==
    \E r, q \in Issued :
        /\ trail[r].finals = 1
        /\ Depth(CtxBatch(r).totalEncryptedPartyStrength) = 1
        /\ Matches(r)
        /\ trail[q].stale /\ ~Matches(q)

\* C2: a request on whose batch a contribution landed while it was pending
\* is rejected with StateMismatch when its callback is delivered with a
\* valid proof.
C2_StaleRejected ==
    \A r \in Issued :
        trail[r].stale /\ ~decryptionContexts[r].processed =>
            CallbackError(r, TRUE) = "StateMismatch"

\* C3: a request is finalized at most once; while it is pending and its
\* batch holds the handles of the request a delivery with a valid proof
\* succeeds, and once it is finalized every delivery is a ReplayAttempt.
C3_ReplayRejected ==
    \A r \in Issued :
        /\ trail[r].finals <= 1
        /\ decryptionContexts[r].processed <=> trail[r].finals = 1
        /\ decryptionContexts[r].processed =>
               \A ok \in BOOLEAN : CallbackError(r, ok) = "ReplayAttempt"
        /\ ~decryptionContexts[r].processed /\ Matches(r) =>
               CallbackError(r, TRUE) = "ok"

\* a finalized request whose batch still holds the handles of the request
C3_Witness ==
    \E r \in Issued :
        /\ trail[r].finals = 1
        /\ Matches(r)
        /\ CallbackError(r, TRUE) = "ReplayAttempt"

\* C4: a stored context stays stored, keeps its batchId and stateHash, and
\* its processed flag changes only from false to true, only in a delivery
\* that finalizes its own request id, and only once.
C4_ContextImmutable ==
    [][\A r \in Issued :
          /\ r \in Issued'
          /\ decryptionContexts'[r].batchId = decryptionContexts[r].batchId
          /\ decryptionContexts'[r].stateHash = decryptionContexts[r].stateHash
          /\ decryptionContexts[r].stateHash = HashCiphertexts(requests[r])
          /\ decryptionContexts[r].processed => decryptionContexts'[r].processed
          /\ decryptionContexts'[r].processed # decryptionContexts[r].processed
                <=> trail'[r].finals = trail[r].finals + 1
          /\ decryptionContexts'[r].processed # decryptionContexts[r].processed
                => trail[r].finals = 0
      ]_vars

\* a finalized context and a later request, still pending, on the same batch
C4_Witness ==
    \E r, q \in Issued :
        /\ r < q
        /\ decryptionContexts[r].processed
        /\ ~decryptionContexts[q].processed
        /\ decryptionContexts[q].batchId = decryptionContexts[r].batchId

\* C5 as claimed: no state lets a delivery for r be rejected for its proof
\* and a delivery for r succeed; the rejected call changes nothing, so the
\* two can be made one after the other.
C5_ProofRejectionTerminal ==
    \A r \in Issued :
        ~(CallbackError(r, FALSE) = "ProofInvalid" /\ CallbackError(r, TRUE) = "ok")

\* C5 amended: where a delivery for r is rejected for its proof, the context
\* is pending, and after any step that neither finalizes r nor changes the
\* handles of its batch (the rejected delivery is such a step) a delivery
\* for r with a valid proof succeeds.
C5_ProofRejectionRetryable ==
    [][\A r \in Issued :
          CallbackError(r, FALSE) = "ProofInvalid" =>
              /\ ~decryptionContexts[r].processed
              /\ CallbackError(r, TRUE) = "ok"
              /\ (trail'[r].finals = trail[r].finals
                    /\ BatchCts(batches'[decryptionContexts'[r].batchId])
                          = BatchCts(CtxBatch(r)))
                 => /\ ~decryptionContexts'[r].processed
                    /\ CallbackError(r, TRUE)' = "ok"
      ]_vars

\* a pending request on a batch with contributions whose delivery with an
\* invalid proof is rejected for the proof, beside a finalized one
C5_Witness ==
    \E r, q \in Issued :
        /\ CallbackError(r, FALSE) = "ProofInvalid"
        /\ Depth(CtxBatch(r).totalEncryptedPartyStrength) = 1
        /\ trail[q].finals = 1

\* C6: once a delivery for r with a valid proof is rejected with
\* StateMismatch, no step leads to a state where a delivery for r succeeds.
C6_MismatchPermanent ==
    [][\A r \in Issued :
          CallbackError(r, TRUE) = "StateMismatch" =>
              CallbackError(r, TRUE)' # "ok"
      ]_vars

----------------------------------------------------------------------------
(* Properties of the batch ledger *)

\* C7: at most one batch record has open = true.
C7_AtMostOneOpen == Cardinality({b \in BatchIds : batches[b].open}) <= 1

\* C8: a batch that exists and is not open is never open again and keeps
\* its four handles.
C8_NeverReopens ==
    [][\A b \in BatchIds :
          batches[b].id # 0 /\ ~batches[b].open =>
              /\ ~batches'[b].open
              /\ BatchCts(batches'[b]) = BatchCts(batches[b])
      ]_vars

\* a step of openBatch made while the current batch is open
OpenedWhileOpen ==
    /\ batches[currentBatchId].open
    /\ batches' # batches
    /\ batches'[currentBatchId'] = NewBatch(currentBatchId')

\* C9: currentBatchId never decreases; openBatch called while batch b is
\* open makes current an id greater than b's; and a batch whose id is below
\* currentBatchId keeps its four handles for ever.
C9_SupersededFrozen ==
    [][/\ currentBatchId' >= currentBatchId
       /\ OpenedWhileOpen =>
              /\ batches[currentBatchId].id < currentBatchId'
              /\ batches'[currentBatchId] = batches[currentBatchId]
       /\ \A b \in BatchIds :
              b < currentBatchId /\ batches[b].id # 0 =>
                  BatchCts(batches'[b]) = BatchCts(batches[b])
      ]_vars

\* batch 1 was superseded with a contribution in it, and a contribution has
\* since been added to its successor
C9_Witness ==
    /\ currentBatchId = FirstBatchId + 1
    /\ Depth(batches[FirstBatchId].totalEncryptedPartyStrength) = 1
    /\ Depth(batches[currentBatchId].totalEncryptedPartyStrength) = 1
    /\ batches[FirstBatchId].totalEncryptedPartyStrength
          # batches[currentBatchId].totalEncryptedPartyStrength

----------------------------------------------------------------------------
(* Properties of the roles *)

\* C10: in every state, whatever the batch state, the pause flag and the
\* cooldown, submitPartyAttributes by an address outside the provider set
\* fails with NotProvider; an address that was removed is outside the set
\* until it is added again.
C10_NonProviderRejected ==
    \A c \in Addrs : c \notin providers => SubmitError(c) = "NotProvider"

\* an address that contributed as a provider and was then removed, calling
\* with the batch open, the contract not paused and its cooldown over
C10_Witness ==
    \E c \in Addrs :
        /\ lastSubmissionTime[c] # 0
        /\ c \notin providers
        /\ ~paused
        /\ batches[currentBatchId].open
        /\ ~CooldownActive(lastSubmissionTime[c])
        /\ SubmitError(c) = "NotProvider"

----------------------------------------------------------------------------
(* Properties of the gates *)

\* C11 as stated: while the pause flag is set, openBatch, closeBatch,
\* submitPartyAttributes and generateDungeonSeed fail with Paused for every
\* caller, whatever its role and cooldown.
C11_PausedFirst ==
    paused =>
        \A c \in Addrs :
            /\ OpenBatchError(c) = "Paused"
            /\ CloseBatchError(c) = "Paused"
            /\ SubmitError(c) = "Paused"
            /\ GenerateError(c) = "Paused"

\* C11: while the pause flag is set the four operations fail for every
\* caller, the role being tested before the flag: a caller without the role
\* gets NotOwner or NotProvider, every caller with the role gets Paused,
\* also inside its cooldown and with the current batch not open.
C11_PausedAfterRole ==
    paused =>
        \A c \in Addrs :
            /\ OpenBatchError(c) = IF c = owner THEN "Paused" ELSE "NotOwner"
            /\ CloseBatchError(c) = IF c = owner THEN "Paused" ELSE "NotOwner"
            /\ SubmitError(c) =
                   IF c \in providers THEN "Paused" ELSE "NotProvider"
            /\ GenerateError(c) =
                   IF c \in providers THEN "Paused" ELSE "NotProvider"

\* paused, with a provider inside both of its cooldowns and a caller that
\* is neither owner nor provider
C11_Witness ==
    /\ paused
    /\ cooldownSeconds > 0
    /\ \E c \in providers :
           /\ lastSubmissionTime[c] = now
           /\ lastDecryptionRequestTime[c] = now
    /\ \E d \in Addrs : d # owner /\ d \notin providers

\* the conditions of generateDungeonSeed other than the role of caller c
SeedReady(c) ==
    /\ ~paused
    /\ batches[currentBatchId].open
    /\ ~CooldownActive(lastDecryptionRequestTime[c])

\* C12 as stated: not paused, current batch open and cooldown satisfied,
\* generateDungeonSeed succeeds exactly for the callers that are the owner
\* or a provider.
C12_OwnerOrProvider ==
    \A c \in Addrs :
        SeedReady(c) =>
            (GenerateError(c) = "ok" <=> (c = owner \/ c \in providers))

\* C12: not paused, current batch open and cooldown satisfied,
\* generateDungeonSeed succeeds exactly for the members of the provider set;
\* every other caller, the owner included, gets NotProvider.
C12_ProviderGated ==
    \A c \in Addrs :
        SeedReady(c) =>
            GenerateError(c) = IF c \in providers THEN "ok" ELSE "NotProvider"

\* a provider has requested a seed, and the owner, ready to request, is not
\* in the provider set
C12_Witness ==
    /\ nextRequestId > 0
    /\ providers # {}
    /\ owner \notin providers
    /\ SeedReady(owner)

----------------------------------------------------------------------------
(* Properties of the cooldowns *)

\* a contribution was folded into batch id in this step
Grew(id) ==
    Depth(batches'[id].totalEncryptedPartyStrength) >
        Depth(batches[id].totalEncryptedPartyStrength)

\* provider c, whose last accepted submission was at lastSubmissionTime[c],
\* is refused with CooldownActive before that time plus cooldownSeconds and
\* accepted from then on, the batch being open and the contract not paused
C13_Window ==
    \A c \in providers :
        (~paused /\ lastSubmissionTime[c] > 0) =>
            /\ now < lastSubmissionTime[c] + cooldownSeconds
                   => SubmitError(c) = "CooldownActive"
            /\ (/\ now >= lastSubmissionTime[c] + cooldownSeconds
                /\ batches[currentBatchId].open)
                   => SubmitError(c) = "ok"

\* an accepted submission is recorded at the time it is made
C13_Stamped ==
    Grew(currentBatchId) =>
        \E c \in providers :
            SubmitError(c) = "ok" /\ lastSubmissionTime'[c] = now

\* C13: after a provider's accepted submission at time t, its submissions at
\* t <= t' < t + cooldownSeconds fail with CooldownActive and the one at
\* t + cooldownSeconds succeeds, the batch being open and the contract not
\* paused.
C13_CooldownBoundary == []C13_Window /\ [][C13_Stamped]_vars

\* the first instant after a positive cooldown, the batch open
C13_Witness ==
    \E c \in providers :
        /\ lastSubmissionTime[c] > 0
        /\ cooldownSeconds > 0
        /\ now = lastSubmissionTime[c] + cooldownSeconds
        /\ batches[currentBatchId].open
        /\ ~paused

\* C14: the two cooldowns are independent and per address.  A submission
\* timestamp changes only in a successful submitPartyAttributes of its own
\* address and a request timestamp only in a successful generateDungeonSeed
\* of its own address, each set to the current time; such a call changes no
\* timestamp of the other kind and none of another address.
C14_IndependentCooldowns ==
    [][ /\ \A c \in Addrs :
            lastSubmissionTime'[c] # lastSubmissionTime[c] =>
                /\ SubmitError(c) = "ok"
                /\ Grew(currentBatchId)
                /\ lastSubmissionTime'[c] = now
                /\ \A d \in Addrs \ {c} :
                       lastSubmissionTime'[d] = lastSubmissionTime[d]
        /\ \A c \in Addrs :
            lastDecryptionRequestTime'[c] # lastDecryptionRequestTime[c] =>
                /\ GenerateError(c) = "ok"
                /\ nextRequestId' = nextRequestId + 1
                /\ lastDecryptionRequestTime'[c] = now
                /\ \A d \in Addrs \ {c} :
                       lastDecryptionRequestTime'[d] =
                           lastDecryptionRequestTime[d]
        /\ Grew(currentBatchId) =>
                lastDecryptionRequestTime' = lastDecryptionRequestTime
        /\ nextRequestId' # nextRequestId =>
                lastSubmissionTime' = lastSubmissionTime
      ]_vars

\* one provider has submitted and not requested, another has requested and
\* not submitted
C14_Witness ==
    \E c, d \in Addrs :
        /\ lastSubmissionTime[c] = now
        /\ lastDecryptionRequestTime[c] = 0
        /\ lastDecryptionRequestTime[d] = now
        /\ lastSubmissionTime[d] = 0

----------------------------------------------------------------------------
(* Properties of failing calls *)

\* what the contract stores: the owner, the provider set, the pause flag,
\* the cooldown value, the cooldown timestamps, currentBatchId, every batch
\* record and every decryption context
ContractState ==
    <<owner, providers, paused, cooldownSeconds, lastSubmissionTime,
      lastDecryptionRequestTime, currentBatchId, batches, decryptionContexts>>

\* a step that is the call of an administrative operation by c
AdminCall(c) ==
    \/ \E a \in Addrs : \/ transferOwnership(c, a)
                        \/ addProvider(c, a)
                        \/ removeProvider(c, a)
    \/ \E p \in BOOLEAN : setPaused(c, p)
    \/ \E secs \in CooldownChoices : setCooldownSeconds(c, secs)

\* what a call can write: the stored state, the requests issued and the
\* count of finalized requests
Written == <<ContractState, nextRequestId, requests, trail>>

\* a step that is the call of an operation whose checks fail
FailedCall ==
    \/ \E c \in Addrs :
        \/ OnlyOwnerError(c) # "ok" /\ AdminCall(c)
        \/ OpenBatchError(c) # "ok" /\ openBatch(c)
        \/ CloseBatchError(c) # "ok" /\ closeBatch(c)
        \/ SubmitError(c) # "ok"
               /\ \E x \in RoleContributions : submitPartyAttributes(c, x)
        \/ GenerateError(c) # "ok" /\ generateDungeonSeed(c)
    \/ \E r \in RequestIds, proofOk \in BOOLEAN :
           /\ CallbackError(r, proofOk) # "ok"
           /\ \E x \in Cleartexts : myCallback(r, x, proofOk)

\* nothing an operation writes changes while its checks fail for every
\* caller that could make it
UnwrittenWhileFailing ==
    /\ paused =>
        /\ cooldowns' = cooldowns
        /\ ledger' = ledger
        /\ nextRequestId' = nextRequestId
        /\ requests' = requests
    /\ ~batches[currentBatchId].open =>
        /\ cooldowns' = cooldowns
        /\ nextRequestId' = nextRequestId
        /\ requests' = requests
        /\ \A id \in BatchIds :
               batches'[id] # batches[id] =>
                   id = currentBatchId' /\ batches'[id] = NewBatch(id)
    /\ \A c \in Addrs :
        /\ (c \notin providers \/ CooldownActive(lastSubmissionTime[c]))
               => lastSubmissionTime'[c] = lastSubmissionTime[c]
        /\ (\/ c \notin providers
            \/ CooldownActive(lastDecryptionRequestTime[c]))
               => lastDecryptionRequestTime'[c] =
                      lastDecryptionRequestTime[c]
    /\ (\A c \in Addrs : SubmitError(c) # "ok") =>
           ~Grew(currentBatchId)
    /\ (\A c \in Addrs : GenerateError(c) # "ok") =>
           oracle' = <<decryptionContexts', nextRequestId, requests>>
    /\ \A r \in RequestIds :
        /\ (\A proofOk \in BOOLEAN : CallbackError(r, proofOk) # "ok") =>
               /\ decryptionContexts'[r].processed =
                      decryptionContexts[r].processed
               /\ trail'[r].finals = trail[r].finals
        /\ decryptionContexts'[r].processed
                # decryptionContexts[r].processed =>
               trail'[r].finals = trail[r].finals + 1

\* C15: every operation that fails (NotOwner, NotProvider, Paused,
\* CooldownActive, BatchClosed, ReplayAttempt, StateMismatch,
\* InvalidBatchId or an invalid proof) leaves the whole state unchanged:
\* the owner, the provider set, the pause flag, the cooldown value, the
\* cooldown timestamps, currentBatchId, every batch record and every
\* decryption context.  No step that changes any of them, issues a request
\* or counts a request as finalized is the call of transferOwnership,
\* addProvider, removeProvider, setPaused or setCooldownSeconds by a caller
\* whose owner test fails, of openBatch, closeBatch, submitPartyAttributes
\* or generateDungeonSeed by a caller for whom the checks of the operation
\* fail, or of myCallback for a request and a proof for which its checks
\* fail.  And while an operation fails for every caller that could make it,
\* no step writes what that operation writes: nothing of the timestamps,
\* the batches and the requests while paused; no timestamp and no request
\* while the current batch is not open; no timestamp of a caller that is
\* not a provider or is inside its cooldown; no processed flag of a context
\* whose delivery fails.
C15_FailureChangesNothing ==
    [][Written' # Written => ~FailedCall /\ UnwrittenWhileFailing]_vars

\* a state where calls of every operation fail: the ownership handed over
\* and the contract paused, the current batch closed, an address that is
\* neither the owner nor a provider, a provider inside its cooldown, a
\* pending request whose batch has changed since it was issued and a
\* request id that was never issued
C15_Witness ==
    /\ owner # Deployer
    /\ paused
    /\ ~batches[currentBatchId].open /\ batches[currentBatchId].id # 0
    /\ \E c \in Addrs : OnlyOwnerError(c) = "NotOwner" /\ c \notin providers
    /\ \E c \in providers : CooldownActive(lastSubmissionTime[c])
    /\ \E c \in Addrs : SubmitError(c) = "NotProvider"
    /\ \E c \in Addrs : GenerateError(c) = "Paused"
    /\ \E c \in Addrs : OpenBatchError(c) # "ok"
    /\ \E c \in Addrs : CloseBatchError(c) # "ok"
    /\ \E r \in Issued : CallbackError(r, TRUE) = "StateMismatch"
    /\ \E r \in RequestIds : CallbackError(r, FALSE) = "InvalidBatchId"

----------------------------------------------------------------------------
(* Properties of the aggregation *)

\* the plaintexts of the three accumulators of batch b
PlainTotals(b) ==
    << Plain(b.totalEncryptedPartyStrength),
       Plain(b.totalEncryptedPartyAgility),
       Plain(b.totalEncryptedPartyIntellect) >>

\* C16: the plaintexts of the three accumulators of a batch are zero when
\* openBatch stores it, and every accepted submitPartyAttributes adds the
\* plaintexts (s, a, i) of its inputs to them, each sum an euint32; so the
\* accumulators of an open batch hold the sums of the accepted contributions.
C16_HomomorphicSums ==
    [][ /\ (\E c \in Addrs : lastSubmissionTime'[c] # lastSubmissionTime[c])
            => \E x \in WideContributions :
                   PlainTotals(batches'[currentBatchId]) =
                       [k \in 1..3 |->
                           AddW(PlainTotals(batches[currentBatchId])[k],
                                Plain(x[k]))]
        /\ \A id \in BatchIds :
               (batches'[id].open /\ ~batches[id].open) =>
                   PlainTotals(batches'[id]) = <<ZeroWord, ZeroWord, ZeroWord>>
      ]_vars

\* the aggregate (9, 8, 6) of the contributions (5, 3, 4) and (4, 5, 2)
C16_Witness ==
    /\ batches[currentBatchId].open
    /\ Depth(batches[currentBatchId].totalEncryptedPartyStrength) = 2
    /\ PlainTotals(batches[currentBatchId]) = <<ToWord(9), ToWord(8), ToWord(6)>>

\* a successful generateDungeonSeed leaves on the current batch the seed
\* handle FHE.add(FHE.mul(strength, agility), intellect) of the accumulators
\* it found there, whose plaintext is strength x agility + intellect
C17_SeedComputed ==
    nextRequestId' = nextRequestId + 1 =>
        LET b == batches[currentBatchId]
            seed == batches'[currentBatchId].dungeonSeed
        IN  /\ seed = FHEadd(FHEmul(b.totalEncryptedPartyStrength,
                                    b.totalEncryptedPartyAgility),
                             b.totalEncryptedPartyIntellect)
            /\ Plain(seed) =
                   AddW(MulW(PlainTotals(b)[1], PlainTotals(b)[2]),
                        PlainTotals(b)[3])
            /\ PlainTotals(batches'[currentBatchId]) = PlainTotals(b)

\* a delivery with a valid proof for a pending request on whose batch no
\* contribution has landed since finalizes, announcing the delivered values
C17_DeliveredAsIs ==
    \A r \in Issued :
        (~decryptionContexts[r].processed /\ ~trail[r].stale) =>
            /\ CallbackError(r, TRUE) = "ok"
            /\ \A x \in Cleartexts :
                   CallbackEvents(r, x)[1].args =
                       <<r, decryptionContexts[r].batchId>> \o x

\* C17 as stated: generateDungeonSeed stores the seed handle
\* add(mul(strength, agility), intellect), and a callback with a valid proof
\* and no intervening submission finalizes with the delivered cleartexts.
C17_SeedAndFinalization == [][C17_SeedComputed]_vars /\ []C17_DeliveredAsIs

\* the three accumulator handles of batch b
Totals(b) ==
    << b.totalEncryptedPartyStrength, b.totalEncryptedPartyAgility,
       b.totalEncryptedPartyIntellect >>

\* C18 as stated: the accumulator handles stored under an existing batch id
\* change only in a successful submitPartyAttributes, which folds one
\* contribution into the current batch; no other operation changes them.
C18_OnlySubmitWrites ==
    [][ \A id \in BatchIds :
            (batches[id].id # 0 /\ Totals(batches'[id]) # Totals(batches[id]))
                => /\ id = currentBatchId
                   /\ \E c \in Addrs : SubmitError(c) = "ok"
                   /\ \E x \in Contributions :
                          batches'[id] = Accumulate(batches[id], x)
      ]_vars

----------------------------------------------------------------------------
(* Properties of the administration *)

\* the call of each administrative operation by c takes effect from here
AdminCallsSucceed(c) ==
    /\ \A a \in Addrs \ {owner} :
           ENABLED (transferOwnership(c, a) /\ owner' = a)
    /\ \A a \in Addrs \ providers :
           ENABLED (addProvider(c, a) /\ a \in providers')
    /\ \A a \in providers :
           ENABLED (removeProvider(c, a) /\ a \notin providers')
    /\ ENABLED (setPaused(c, ~paused) /\ paused' # paused)
    /\ \A secs \in CooldownChoices \ {cooldownSeconds} :
           ENABLED (setCooldownSeconds(c, secs) /\ cooldownSeconds' = secs)

\* no call of an administrative operation by c changes anything from here
AdminCallsFail(c) ==
    /\ OnlyOwnerError(c) = "NotOwner"
    /\ \A a \in Addrs :
           /\ ~ENABLED (transferOwnership(c, a) /\ vars' # vars)
           /\ ~ENABLED (addProvider(c, a) /\ vars' # vars)
           /\ ~ENABLED (removeProvider(c, a) /\ vars' # vars)
    /\ \A p \in BOOLEAN : ~ENABLED (setPaused(c, p) /\ vars' # vars)
    /\ \A secs \in CooldownChoices :
           ~ENABLED (setCooldownSeconds(c, secs) /\ vars' # vars)

\* C19: transferOwnership, addProvider, removeProvider, setPaused and
\* setCooldownSeconds succeed only when called by the current owner and
\* fail with NotOwner for any other caller; after transferOwnership(newOwner)
\* the administrative calls of the previous owner fail with NotOwner and
\* those of newOwner succeed.  In every state each of the five operations
\* takes effect when the owner calls it and changes nothing when any other
\* address calls it, the owner test naming NotOwner; every step that
\* changes the owner, the provider set, the pause flag or the cooldown
\* value is the call of the operation that writes it by the owner of the
\* moment, and no step is the call of one of the five by another address;
\* and the step that changes the owner leaves the previous owner failing
\* the owner test and the new owner passing it.
C19_OwnerOnly ==
    /\ [](\A c \in Addrs : IF c = owner THEN /\ OnlyOwnerError(c) = "ok"
                                              /\ AdminCallsSucceed(c)
                                         ELSE AdminCallsFail(c))
    /\ [][ /\ owner' # owner => transferOwnership(owner, owner')
           /\ providers' # providers =>
                  \E a \in Addrs : \/ addProvider(owner, a)
                                   \/ removeProvider(owner, a)
           /\ paused' # paused => setPaused(owner, paused')
           /\ cooldownSeconds' # cooldownSeconds =>
                  setCooldownSeconds(owner, cooldownSeconds')
           /\ \A c \in Addrs \ {owner} : ~AdminCall(c)
           /\ \A p \in Addrs :
               /\ (p = owner /\ owner' # p) =>
                      (OnlyOwnerError(p))' = "NotOwner"
               /\ (p # owner /\ owner' = p) =>
                      (OnlyOwnerError(p))' = "ok"
         ]_vars

\* the ownership has passed from the deployer to another address: the
\* contract is paused, the deployer is no longer a provider and the cooldown
\* is not the default; from here every administrative call of the new owner
\* takes effect and none of the deployer does
C19_Witness ==
    /\ owner # Deployer
    /\ paused
    /\ Deployer \notin providers
    /\ owner \in providers
    /\ cooldownSeconds # DefaultCooldown
    /\ AdminCallsSucceed(owner)
    /\ AdminCallsFail(Deployer)

\* C20 as stated: an administrative operation called with the value
\* already in effect emits no notification.
C20_SilentWhenUnchanged ==
    /\ TransferOwnershipEvents(owner) = << >>
    /\ \A p \in providers : AddProviderEvents(p) = << >>
    /\ \A p \in Addrs \ providers : RemoveProviderEvents(p) = << >>
    /\ SetPausedEvents(paused) = << >>
    /\ SetCooldownSecondsEvents(cooldownSeconds) = << >>

----------------------------------------------------------------------------
(* Further properties of the callback *)

\* C21: a delivery for a request id under which generateDungeonSeed never
\* stored a context fails with InvalidBatchId whatever the proof, and the
\* context under that id stays the empty one.
C21_UnknownRequestRejected ==
    \A r \in RequestIds \ Issued :
        /\ decryptionContexts[r] = ZeroContext
        /\ trail[r] = NoTrail
        /\ \A proofOk \in BOOLEAN :
               CallbackError(r, proofOk) = "InvalidBatchId"

\* requests have been issued and finalized, batches exist, and one request
\* id was never issued
C21_Witness ==
    /\ \E r \in Issued : decryptionContexts[r].processed
    /\ batches[currentBatchId].id # 0
    /\ RequestIds \ Issued # {}

\* C22: a pending request survives the batch lifecycle.  A request that a
\* valid delivery would finalize stays so through every step, closeBatch and
\* an openBatch made while its batch is open included; it stops being so only
\* when it is finalized, when a contribution lands on its batch, or when
\* openBatch rewrites its batch after it was closed.
C22_PendingSurvives ==
    [][ \A r \in Issued :
            LET b == decryptionContexts[r].batchId IN
            (/\ CallbackError(r, TRUE) = "ok"
             /\ (CallbackError(r, TRUE))' # "ok")
                => \/ decryptionContexts'[r].processed
                   \/ Grew(b)
                   \/ ~batches[b].open /\ batches'[b] = NewBatch(b)
      ]_vars

\* two pending requests a valid delivery would finalize: one on a batch
\* superseded while open, one on the current batch, now closed
C22_Witness ==
    \E r, s \in Issued :
        /\ decryptionContexts[r].batchId < currentBatchId
        /\ decryptionContexts[s].batchId = currentBatchId
        /\ ~batches[currentBatchId].open
        /\ CallbackError(r, TRUE) = "ok"
        /\ CallbackError(s, TRUE) = "ok"

\* C23: role changes are not retroactive.  A step that changes the provider
\* set changes no batch, no context and no cooldown timestamp, and the
\* outcome of a delivery for every request id is what it was before: a
\* request issued by a provider since removed still finalizes and the
\* contributions it made stay in the accumulators.
C23_NotRetroactive ==
    [][ providers' # providers =>
            /\ ledger' = ledger
            /\ oracle' = oracle
            /\ cooldowns' = cooldowns
            /\ \A r \in RequestIds, proofOk \in BOOLEAN :
                   (CallbackError(r, proofOk))' = CallbackError(r, proofOk)
      ]_vars

\* every provider has been removed; a request one of them issued on a batch
\* holding a contribution is pending and a valid delivery would finalize it
C23_Witness ==
    /\ providers = {}
    /\ \E r \in Issued :
           /\ CallbackError(r, TRUE) = "ok"
           /\ Depth(CtxBatch(r).totalEncryptedPartyStrength) > 0

----------------------------------------------------------------------------
(* Further properties of the gates *)

\* C24: submitPartyAttributes and generateDungeonSeed test the role, then
\* the cooldown, then the batch.  A caller that is not a provider gets
\* NotProvider whatever the batch; with the contract not paused, a provider
\* inside its cooldown gets CooldownActive whether the current batch is open
\* or not, and BatchClosed is left for a provider outside its cooldown.
C24_RoleCooldownBatch ==
    \A c \in Addrs :
        /\ c \notin providers =>
               SubmitError(c) = "NotProvider" /\ GenerateError(c) = "NotProvider"
        /\ (c \in providers /\ ~paused) =>
               /\ SubmitError(c) =
                      IF CooldownActive(lastSubmissionTime[c])
                      THEN "CooldownActive"
                      ELSE IF ~batches[currentBatchId].open THEN "BatchClosed"
                      ELSE "ok"
               /\ GenerateError(c) =
                      IF CooldownActive(lastDecryptionRequestTime[c])
                      THEN "CooldownActive"
                      ELSE IF ~batches[currentBatchId].open THEN "BatchClosed"
                      ELSE "ok"

\* not paused, the current batch not open, a provider inside both of its
\* cooldowns and an address that is not a provider
C24_Witness ==
    /\ ~paused
    /\ ~batches[currentBatchId].open
    /\ \E c \in providers :
           /\ lastSubmissionTime[c] > 0
           /\ CooldownActive(lastSubmissionTime[c])
           /\ lastDecryptionRequestTime[c] > 0
           /\ CooldownActive(lastDecryptionRequestTime[c])
    /\ Addrs \ providers # {}

\* C25: myCallback reports ReplayAttempt, then StateMismatch, then the
\* failure of the proof.  A delivery for a processed request fails with
\* ReplayAttempt also when the handles of its batch have changed since the
\* request, and a delivery for a pending request whose batch no longer holds
\* the requested handles fails with StateMismatch whether its proof is valid
\* or not; only a pending request whose batch still holds them gets as far
\* as the proof.
C25_CallbackOrder ==
    \A r \in Issued, proofOk \in BOOLEAN :
        CallbackError(r, proofOk) =
            IF decryptionContexts[r].processed THEN "ReplayAttempt"
            ELSE IF ~Matches(r) THEN "StateMismatch"
            ELSE IF ~proofOk THEN "ProofInvalid"
            ELSE "ok"

\* a processed request and a pending one, both on a batch whose handles have
\* changed since they were requested
C25_Witness ==
    \E r, s \in Issued :
        /\ decryptionContexts[r].processed /\ ~Matches(r)
        /\ ~decryptionContexts[s].processed /\ ~Matches(s)

\* a context is marked processed only by a delivery that passed every check,
\* the proof included, and that delivery is counted
C26_MarkedByVerified ==
    \A r \in RequestIds :
        (decryptionContexts'[r].processed /\ ~decryptionContexts[r].processed)
            => /\ CallbackError(r, TRUE) = "ok"
               /\ trail'[r].finals = trail[r].finals + 1
               /\ decryptionContexts'[r] =
                      [decryptionContexts[r] EXCEPT !.processed = TRUE]

\* a delivery with an invalid proof leaves the context as it is, and the
\* notification of a finalizing delivery carries the request id, the batch
\* id of the context and the four delivered values
C26_InvalidProofInert ==
    \A r \in RequestIds :
        /\ CallbackError(r, FALSE) # "ok"
        /\ Finalize(decryptionContexts[r], CallbackError(r, FALSE)) =
               decryptionContexts[r]
        /\ Delivered(trail[r], CallbackError(r, FALSE)) = trail[r]
        /\ \A x \in Cleartexts :
               CallbackEvents(r, x) =
                   << Event("DecryptionCompleted",
                            <<r, decryptionContexts[r].batchId,
                              x[1], x[2], x[3], x[4]>>) >>

\* C26: a context becomes processed, and DecryptionCompleted is emitted,
\* only in a delivery whose proof verified; the notification carries the
\* request id, the context's batch id and the four delivered values; a
\* delivery with an invalid proof leaves processed = false.
C26_FinalizedOnlyVerified ==
    [][C26_MarkedByVerified]_vars /\ []C26_InvalidProofInert

\* one request finalized by its single counted delivery, another pending
\* that a delivery with a valid proof would finalize
C26_Witness ==
    \E r, s \in Issued :
        /\ decryptionContexts[r].processed /\ trail[r].finals = 1
        /\ ~decryptionContexts[s].processed
        /\ CallbackError(s, TRUE) = "ok"
        /\ CallbackError(s, FALSE) = "ProofInvalid"

----------------------------------------------------------------------------
(* Further properties of the batch ledger *)

\* while the current batch is not open, closeBatch by the owner fails with
\* BatchClosed, and submitPartyAttributes and generateDungeonSeed fail for
\* every caller, with BatchClosed for a provider outside its cooldown, the
\* contract not being paused
C27_ClosedGate ==
    ~batches[currentBatchId].open =>
        /\ ~paused => CloseBatchError(owner) = "BatchClosed"
        /\ \A c \in Addrs :
               /\ CloseBatchError(c) # "ok"
               /\ SubmitError(c) # "ok"
               /\ GenerateError(c) # "ok"
               /\ (/\ c \in providers
                   /\ ~paused
                   /\ ~CooldownActive(lastSubmissionTime[c]))
                      => SubmitError(c) = "BatchClosed"
               /\ (/\ c \in providers
                   /\ ~paused
                   /\ ~CooldownActive(lastDecryptionRequestTime[c]))
                      => GenerateError(c) = "BatchClosed"

\* a step that closes the current batch changes nothing but its open flag
C27_CloseKeepsHandles ==
    (/\ batches[currentBatchId].open
     /\ currentBatchId' = currentBatchId
     /\ ~batches'[currentBatchId].open)
        => /\ CloseBatchError(owner) = "ok"
           /\ batches' = [batches EXCEPT ![currentBatchId].open = FALSE]

\* C27: closeBatch fails with BatchClosed unless the current batch is open,
\* before the first openBatch and after a closeBatch included; a successful
\* closeBatch clears the open flag and leaves the handles as they are, and
\* until the next openBatch submitPartyAttributes and generateDungeonSeed
\* fail, with BatchClosed for callers that pass the role, pause and cooldown
\* tests.
C27_CloseBatch == []C27_ClosedGate /\ [][C27_CloseKeepsHandles]_vars

\* a batch holding a contribution has been closed; the contract is not
\* paused and a provider is outside both of its cooldowns
C27_Witness ==
    /\ batches[currentBatchId].id # 0
    /\ ~batches[currentBatchId].open
    /\ Depth(batches[currentBatchId].totalEncryptedPartyStrength) > 0
    /\ ~paused
    /\ \E c \in providers :
           /\ ~CooldownActive(lastSubmissionTime[c])
           /\ ~CooldownActive(lastDecryptionRequestTime[c])

\* a successful generateDungeonSeed stores its context under an id no earlier
\* request has; a pending request on the same batch that a valid delivery
\* would finalize has the same stateHash as the new one and still finalizes
C28_SecondRequest ==
    \A new \in RequestIds :
        (new = nextRequestId /\ nextRequestId' = nextRequestId + 1) =>
        /\ decryptionContexts[new] = ZeroContext
        /\ decryptionContexts'[new].batchId = currentBatchId
        /\ ~decryptionContexts'[new].processed
        /\ \A s \in Issued :
               /\ decryptionContexts'[s] = decryptionContexts[s]
               /\ (/\ decryptionContexts[s].batchId = currentBatchId
                   /\ CallbackError(s, TRUE) = "ok")
                      => /\ decryptionContexts'[s].stateHash =
                               decryptionContexts'[new].stateHash
                         /\ (CallbackError(s, TRUE))' = "ok"
                         /\ (CallbackError(new, TRUE))' = "ok"

\* finalizing one request changes the outcome of a delivery for no other
C28_FinalizeOne ==
    \A r \in Issued :
        (decryptionContexts'[r].processed /\ ~decryptionContexts[r].processed)
            => \A s \in Issued \ {r}, proofOk \in BOOLEAN :
                   /\ decryptionContexts'[s] = decryptionContexts[s]
                   /\ (CallbackError(s, proofOk))' = CallbackError(s, proofOk)

\* no request is finalized twice
C28_AtMostOnce == \A r \in RequestIds : trail[r].finals <= 1

\* C28: pending requests are independent.  Two generateDungeonSeed calls on
\* one batch with no contribution in between store contexts with equal
\* stateHash under distinct request ids; each is finalized by its own valid
\* delivery, once, in either order, and finalizing one does not make the
\* other fail.
C28_IndependentRequests ==
    /\ [][C28_SecondRequest /\ C28_FinalizeOne]_vars
    /\ []C28_AtMostOnce

\* two requests with equal stateHash on one batch; the later one has been
\* finalized and a valid delivery would still finalize the earlier one
C28_Witness ==
    \E r, s \in Issued :
        /\ r < s
        /\ decryptionContexts[r].batchId = decryptionContexts[s].batchId
        /\ decryptionContexts[r].stateHash = decryptionContexts[s].stateHash
        /\ decryptionContexts[s].processed /\ trail[s].finals = 1
        /\ CallbackError(r, TRUE) = "ok"

\* while paused, a valid delivery for a pending request whose batch holds
\* the requested handles finalizes it
C29_FinalizesWhilePaused ==
    paused =>
        \A r \in Issued :
            (~decryptionContexts[r].processed /\ Matches(r)) =>
                /\ CallbackError(r, TRUE) = "ok"
                /\ Finalize(decryptionContexts[r], "ok").processed

\* a step that changes the pause flag changes nothing else
C29_PauseFrame ==
    paused' # paused =>
        /\ decryptionContexts' = decryptionContexts
        /\ batches' = batches
        /\ <<owner, providers, cooldownSeconds>>' =
               <<owner, providers, cooldownSeconds>>
        /\ <<cooldowns, currentBatchId, nextRequestId, requests>>' =
               <<cooldowns, currentBatchId, nextRequestId, requests>>

\* C29: myCallback is not gated by the pause flag: while the contract is
\* paused a delivery with a valid proof for a pending request whose batch
\* state matches still finalizes, and setPaused changes no decryption context
\* and no batch.
C29_CallbackIgnoresPause == []C29_FinalizesWhilePaused /\ [][C29_PauseFrame]_vars

\* paused, with a request that was pending when the flag was set
C29_Witness ==
    /\ paused
    /\ \E r \in Issued : ~decryptionContexts[r].processed /\ Matches(r)

----------------------------------------------------------------------------
(* Further properties of the administration *)

\* a step that changes the owner changes nothing else, and the outcome of a
\* submission or a seed request by any address is what it was before
C30_TransferFrame ==
    owner' # owner =>
        /\ <<providers, paused, cooldownSeconds>>' =
               <<providers, paused, cooldownSeconds>>
        /\ <<cooldowns, ledger, oracle>>' = <<cooldowns, ledger, oracle>>
        /\ \A p \in Addrs :
               /\ (SubmitError(p))' = SubmitError(p)
               /\ (GenerateError(p))' = GenerateError(p)

\* an owner that is not in the provider set is refused as any non-provider
C30_OwnerNotProvider ==
    owner \notin providers =>
        /\ SubmitError(owner) = "NotProvider"
        /\ GenerateError(owner) = "NotProvider"

\* C30: transferOwnership changes only the owner.  The new owner is not
\* added to the provider set, so its submitPartyAttributes and
\* generateDungeonSeed fail with NotProvider until addProvider, and the
\* previous owner stays a provider, able to submit and to request seeds.
C30_TransferOnlyOwner == [][C30_TransferFrame]_vars /\ []C30_OwnerNotProvider

\* the ownership has passed to an address outside the provider set, and the
\* deployer can still submit and request a seed
C30_Witness ==
    /\ owner # Deployer
    /\ owner \notin providers
    /\ SubmitError(owner) = "NotProvider"
    /\ SubmitError(Deployer) = "ok"
    /\ GenerateError(Deployer) = "ok"

----------------------------------------------------------------------------
(* Properties of the cooldown arithmetic *)

\* the time is before last + cooldownSeconds, the sum taken without a width
InsideWindow(last) == cooldownSeconds < 0 \/ now < last + cooldownSeconds

\* C31 as stated: for every cooldown the owner can set, a provider inside
\* its cooldown window, the contract not paused, is refused with
\* CooldownActive by submitPartyAttributes and by generateDungeonSeed.
C31_CooldownNeverPanics ==
    \A c \in providers :
        ~paused =>
            /\ InsideWindow(lastSubmissionTime[c])
                   => SubmitError(c) = "CooldownActive"
            /\ InsideWindow(lastDecryptionRequestTime[c])
                   => GenerateError(c) = "CooldownActive"

----------------------------------------------------------------------------
(* Properties of the web client *)

\* the ids stored under dungeon_keys
ListedIds == {dungeonKeys[i] : i \in DOMAIN dungeonKeys}

\* every createDungeon that stored a record has written dungeon_keys too
CreationsComplete ==
    /\ DOMAIN made \subseteq finished
    /\ \A s \in Sessions : \A i \in DOMAIN calls[s] :
           ~(calls[s][i].op = "create"
             /\ calls[s][i].pc \in {"getKeys", "setKeys"})

\* C32 as stated: once the createDungeon operations that stored a record
\* have all written dungeon_keys, whatever their interleaving, dungeon_keys
\* holds every new id and every stored dungeon_<id> record is listed in
\* dungeon_keys.
C32_EveryRecordListed ==
    CreationsComplete => \A id \in DOMAIN records : id \in ListedIds

\* a dungeon createDungeon stored in this run is still generating
C33_CreatedStaysGenerating ==
    \A id \in DOMAIN made : records[id].status = "generating"

\* a record enters the store with status generating
C33_StoredGenerating ==
    \A id \in DungeonIds :
        (id \notin DOMAIN records /\ id \in DOMAIN records')
            => records'[id].status = "generating"

\* exploreDungeon comes to its setData only with a record it read as ready
C33_WritesOnlyReady ==
    \A s \in Sessions : \A i \in DOMAIN calls[s] :
        (calls[s][i].op = "explore" /\ calls[s][i].pc \in {"setData", "ack"})
            => calls[s][i].data.status = "ready"

\* a stored record changes only under the setData of an exploreDungeon, and
\* changes to completed
C33_WrittenByExplore ==
    \A id \in DOMAIN records :
        records'[id] # records[id]
            => /\ records'[id].status = "completed"
               /\ \E s \in Sessions : \E i \in DOMAIN calls[s] :
                      /\ calls[s][i].op = "explore"
                      /\ calls[s][i].pc = "setData"
                      /\ calls'[s][i].pc = "ack"
                      /\ calls[s][i].id = id

\* a completed record stays completed
C33_CompletedStays ==
    \A id \in DOMAIN records :
        records[id].status = "completed"
            => records'[id].status = "completed"

\* C33: createDungeon stores a record with status generating; exploreDungeon
\* writes a record only when the status it read is ready, and sets it to
\* completed; no run of the client's operations takes a dungeon it created
\* to completed; and a completed record never returns to generating or ready.
C33_StatusFlow ==
    /\ []C33_CreatedStaysGenerating
    /\ []C33_WritesOnlyReady
    /\ [][C33_StoredGenerating /\ C33_WrittenByExplore
           /\ C33_CompletedStays]_vars

\* the seeded dungeon was explored to completed, a dungeon was created, and
\* an exploreDungeon was refused because the record it read was not ready
C33_Witness ==
    /\ records[Seeded].status = "completed"
    /\ made # EmptyRecords
    /\ \E s \in Sessions :
           transactionStatus[s].message
               = "Exploration failed: Dungeon not ready for exploration"

\* the attributes of a form, as decryptWithSignature names them
FormAttributes(form) ==
    [strength |-> form.strength, agility |-> form.agility,
     intelligence |-> form.intelligence]

\* every attribute of the form is a number
IntegerForm(form) ==
    form.strength # NaN /\ form.agility # NaN /\ form.intelligence # NaN

\* C34 as stated: for every form of integers handleSubmit accepts (each
\* attribute above 0), when decryptWithSignature decodes the attributes
\* createDungeon stored for the form, it gives the form's strength, agility
\* and intelligence back.
C34_PackingRoundTrips ==
    [][\A s \in Sessions : \A i \in DOMAIN calls[s] :
           (/\ calls[s][i].op = "decrypt"
            /\ decryptedAttributes'[s] # decryptedAttributes[s]
            /\ decryptedAttributes'[s] # <<>>)
               => \A id \in DOMAIN made :
                      (/\ IntegerForm(made[id])
                       /\ records[id].attributes
                              = calls[s][i].data.attributes)
                          => decryptedAttributes'[s][1]
                                 = FormAttributes(made[id])]_vars

====
